---- MODULE Spec2Model ----
(***************************************************************************)
(* State-machine model of the chat client in src/frontend/src/App.tsx      *)
(* (ChatApp) and its hooks useSessions (src/unnamed/part_000) and          *)
(* useTeachMode (src/frontend/src/hooks/useTeachMode.ts).                  *)
(*                                                                         *)
(* Granularity: one action per handler run between two suspension points.  *)
(* A handler runs synchronously up to its first await; the awaited remote  *)
(* call is a record in the sequence inflight, holding the values the       *)
(* closure captured when the handler was called; the continuation after    *)
(* the await is a separate action that removes the record.  React state    *)
(* setters made in one synchronous run are applied together, and the       *)
(* effects that depend on the changed state run as part of the same step.  *)
(*                                                                         *)
(* Text: a typed string is a sequence of atoms (each atom a TLA+ string:   *)
(* a blank, a slash, or a word); Str flattens it to one string.  Message   *)
(* ids and timestamps (createMessage, App.tsx 91-96) are opaque and are    *)
(* not modelled; a message is its role and text.  The typographic quotes   *)
(* of the feedback texts are written as ASCII quotes.                      *)
(***************************************************************************)
EXTENDS Integers, Sequences, FiniteSets, TLC

(* ---------------------------------------------------------------- bounds *)
\* longest transcript the model lets grow
MaxMsgs == 3
\* longest transcript in the command interpreter's specification
MaxCmdMsgs == 2
\* number of atoms after the command word in a typed command
MaxArgLen == 2
\* remote calls that may be outstanding at once
MaxInflight == 2
\* media streams acquired in one behaviour
MaxStreams == 2
\* largest size of the chunk a recorder delivers when it stops
MaxChunk == 1

(* ------------------------------------------------------------- text model *)
SP == " "
Slash == "/"
Null == "null"

\* String.prototype.toLowerCase on one atom
LowerAtom(a) ==
    CASE a = "Topic" -> "topic"
      [] a = "SESSION" -> "session"
      [] a = "NEW" -> "new"
      [] a = "Zz" -> "zz"
      [] OTHER -> a

Lower(s) == [i \in DOMAIN s |-> LowerAtom(s[i])]

RECURSIVE TrimStart(_)
TrimStart(s) ==
    IF s # <<>> /\ Head(s) = SP THEN TrimStart(Tail(s)) ELSE s

RECURSIVE TrimEnd(_)
TrimEnd(s) ==
    IF s # <<>> /\ s[Len(s)] = SP THEN TrimEnd(SubSeq(s, 1, Len(s) - 1)) ELSE s

\* String.prototype.trim
Trim(s) == TrimEnd(TrimStart(s))

\* String.prototype.startsWith("/")
StartsWithSlash(s) == s # <<>> /\ Head(s) = Slash

\* String.prototype.slice(1)
Slice1(s) == IF s = <<>> THEN <<>> ELSE Tail(s)

\* the atoms of s before its first blank
RECURSIVE FirstToken(_)
FirstToken(s) ==
    IF s = <<>> \/ Head(s) = SP THEN <<>>
    ELSE <<Head(s)>> \o FirstToken(Tail(s))

\* s.split(/\s+/) for a trimmed, non-empty s: its maximal runs of non-blank atoms
RECURSIVE SplitWs(_)
SplitWs(s) ==
    IF s = <<>> THEN <<>>
    ELSE LET tok == FirstToken(s)
             rest == TrimStart(SubSeq(s, Len(tok) + 1, Len(s)))
         IN  <<tok>> \o SplitWs(rest)

\* Array.prototype.join(" ")
RECURSIVE JoinSp(_)
JoinSp(toks) ==
    IF toks = <<>> THEN <<>>
    ELSE IF Len(toks) = 1 THEN toks[1]
    ELSE toks[1] \o <<SP>> \o JoinSp(Tail(toks))

\* the string a sequence of atoms spells
RECURSIVE Str(_)
Str(s) == IF s = <<>> THEN "" ELSE Head(s) \o Str(Tail(s))

(* ------------------------------------------------------- command catalog *)
COMMANDS ==
    << [name |-> "topic", usage |-> "/topic <new_topic>",
        description |-> "Switch the current lesson topic"],
       [name |-> "session", usage |-> "/session new",
        description |-> "Start a brand-new session"],
       [name |-> "summary", usage |-> "/summary",
        description |-> "Summarize the active session"],
       [name |-> "search_topic", usage |-> "/search_topic <keywords>",
        description |-> "Search every stored memory for keywords"],
       [name |-> "all", usage |-> "/all",
        description |-> "List every stored memory entry"],
       [name |-> "reset", usage |-> "/reset",
        description |-> "Clear the entire local memory store"],
       [name |-> "help", usage |-> "/help",
        description |-> "Display the command reference"],
       [name |-> "search", usage |-> "/search <keywords>",
        description |-> "Legacy search on the active filters"],
       [name |-> "vectorsearch", usage |-> "/vectorsearch <query>",
        description |-> "Combined semantic search across chat memory and documents"],
       [name |-> "documentvectorsearch", usage |-> "/documentvectorsearch <query>",
        description |-> "Semantic search only within uploaded documents"] >>

CommandNames == {COMMANDS[i].name : i \in DOMAIN COMMANDS}

UsageOf(n) == COMMANDS[CHOOSE i \in DOMAIN COMMANDS : COMMANDS[i].name = n].usage

\* COMMANDS.map(cmd => usage + " - " + description).join("\n")
RECURSIVE HelpLines(_)
HelpLines(i) ==
    IF i > Len(COMMANDS) THEN ""
    ELSE COMMANDS[i].usage \o " - " \o COMMANDS[i].description
         \o (IF i < Len(COMMANDS) THEN "\n" ELSE "") \o HelpLines(i + 1)

HelpText == HelpLines(1)

\* the characters of one atom; an atom that is not listed counts as one
\* character of its own
CharsOf(a) ==
    CASE a = "topic" -> <<"t", "o", "p", "i", "c">>
      [] a = "session" -> <<"s", "e", "s", "s", "i", "o", "n">>
      [] a = "summary" -> <<"s", "u", "m", "m", "a", "r", "y">>
      [] a = "search_topic" -> <<"s", "e", "a", "r", "c", "h", "_", "t", "o", "p", "i", "c">>
      [] a = "all" -> <<"a", "l", "l">>
      [] a = "reset" -> <<"r", "e", "s", "e", "t">>
      [] a = "help" -> <<"h", "e", "l", "p">>
      [] a = "search" -> <<"s", "e", "a", "r", "c", "h">>
      [] a = "vectorsearch" -> <<"v", "e", "c", "t", "o", "r", "s", "e", "a", "r", "c", "h">>
      [] a = "documentvectorsearch" -> <<"d", "o", "c", "u", "m", "e", "n", "t", "v", "e", "c", "t", "o", "r", "s", "e", "a", "r", "c", "h">>
      [] a = "new" -> <<"n", "e", "w">>
      [] a = "zz" -> <<"z", "z">>
      [] a = "<new_topic>" -> <<"<", "n", "e", "w", "_", "t", "o", "p", "i", "c", ">">>
      [] a = "<keywords>" -> <<"<", "k", "e", "y", "w", "o", "r", "d", "s", ">">>
      [] a = "<query>" -> <<"<", "q", "u", "e", "r", "y", ">">>
      [] OTHER -> <<a>>

\* the characters of a text
RECURSIVE Chars(_)
Chars(s) == IF s = <<>> THEN <<>> ELSE CharsOf(Head(s)) \o Chars(Tail(s))

\* String.prototype.includes on two texts given by their characters
Includes(hay, needle) ==
    \E k \in 0..(Len(hay) - Len(needle)) : SubSeq(hay, k + 1, k + Len(needle)) = needle

\* the placeholder that follows the command word in a usage line
UsageArg(n) ==
    CASE n = "topic" -> <<SP, "<new_topic>">>
      [] n = "session" -> <<SP, "new">>
      [] n \in {"search_topic", "search"} -> <<SP, "<keywords>">>
      [] n \in {"vectorsearch", "documentvectorsearch"} -> <<SP, "<query>">>
      [] OTHER -> <<>>

\* command.usage as the atoms a buffer holds
UsageAtoms(command) == <<Slash, command.name>> \o UsageArg(command.name)

(* ------------------------------------------------------------------ state *)
VARIABLES
    messages,        \* the transcript: sequence of [role, text]
    input,           \* the input buffer (sequence of atoms)
    sessionId,       \* active-session pointer, Null when unbound
    isSending,
    showSuggestions,
    commandQuery,    \* the palette's filter: first word after the slash, as atoms
    teachMode,       \* useTeachMode: local copy of the remote boolean
    teachStatus,     \* "idle" | "learning" | "learned"
    teachTimer,      \* teachStatusTimeoutRef holds a pending timer
    sessions,        \* useSessions: cached session list (sequence of ids)
    refreshing,
    editingSession,  \* id of the session whose title is being edited, or Null
    newTitle,        \* the pending title (sequence of atoms)
    isRecording,
    isTranscribing,
    isPlaying,
    audioError,      \* Null or the error text
    recorderRef,     \* 0 (null) or the index in streams of the current recorder
    streams,         \* every media stream acquired so far, with its recorder
    player,          \* the Audio element of playLatestReply and its object URL
    token,           \* useAuth: the access token, Null when signed out
    user,            \* useAuth: the account of the loaded profile, Null when none
    initialised,     \* initialisedRef: the initialise effect has started
    isUploading,     \* a document upload is outstanding
    inflight,        \* outstanding awaited calls, in issue order (a call issued by a
                     \* settle step is the newest; a continuation keeps its place)
    last             \* history: the handler step just taken

coreVars == <<messages, input, sessionId, isSending, showSuggestions, commandQuery>>
teachVars == <<teachMode, teachStatus, teachTimer>>
sessVars == <<sessions, refreshing>>
audioVars == <<isRecording, isTranscribing, isPlaying, audioError, recorderRef,
               streams, player>>
authVars == <<token, user, initialised>>
renameVars == <<editingSession, newTitle>>
uploadVars == <<isUploading>>
vars == <<coreVars, teachVars, sessVars, audioVars, authVars, renameVars, uploadVars,
          inflight, last>>

Msg(role, text) == [role |-> role, text |-> text]

\* calls made with the bare fetch and no Authorization header: the
\* transcription request (App.tsx 452), the synthesis request (503) and the
\* login request (useAuth.ts 61)
PlainFetchOps == {"stt", "tts", "auth_login"}

\* steps awaited that are no remote call
LocalOps == {"getUserMedia", "audio_play", "resume"}

\* the Authorization credential a call goes out with: authedFetch and
\* buildHeaders attach the token held, the bare fetch attaches nothing
Bearer(op) == IF op \in PlainFetchOps \cup LocalOps THEN Null ELSE token

\* an awaited call with the values its closure captured
Req(op, arg, sid, tm, cont) ==
    [op |-> op, arg |-> arg, sid |-> sid, tm |-> tm, cont |-> cont,
     auth |-> Bearer(op)]

\* the history record: handler, outcome, remote calls issued in the step
Step(op, out, calls) == [op |-> op, out |-> out, calls |-> calls, arg |-> <<>>]

\* the same for a handler called with a typed text
StepOn(op, out, calls, arg) == [op |-> op, out |-> out, calls |-> calls, arg |-> arg]

RemoveAt(s, i) == SubSeq(s, 1, i - 1) \o SubSeq(s, i + 1, Len(s))

WelcomeText == "Welcome! Let's start when you're ready to teach."

\* The chat shell is rendered for a signed-in account only (App.tsx 1002).
\* The initial state is the one of a returning account A whose stored token
\* was verified and whose initialise effect found teach mode off and no
\* stored session: every useState holds its initial value.
Init ==
    /\ messages = <<Msg("system", WelcomeText)>>
    /\ input = <<>>
    /\ sessionId = Null
    /\ isSending = FALSE
    /\ showSuggestions = FALSE
    /\ commandQuery = <<>>
    /\ teachMode = FALSE
    /\ teachStatus = "idle"
    /\ teachTimer = FALSE
    /\ sessions = <<>>
    /\ refreshing = FALSE
    /\ editingSession = Null
    /\ newTitle = <<>>
    /\ isRecording = FALSE
    /\ isTranscribing = FALSE
    /\ isPlaying = FALSE
    /\ audioError = Null
    /\ recorderRef = 0
    /\ streams = <<>>
    /\ player = [stage |-> "none", url |-> FALSE]
    /\ token = "tA"
    /\ user = "A"
    /\ initialised = TRUE
    /\ isUploading = FALSE
    /\ inflight = <<>>
    /\ last = Step("init", "", <<>>)

(* -------------------------------------------------------- shared helpers *)
\* ops whose continuation can append to the transcript
MsgOps == {"chat", "topic", "session", "summary", "search_topic", "search",
           "vectorsearch", "documentvectorsearch", "all", "reset",
           "session_messages", "delete_session", "rename_session",
           "teach_mode_set", "documents_upload"}

RECURSIVE CountMsgOps(_)
CountMsgOps(q) ==
    IF q = <<>> THEN 0
    ELSE (IF Head(q).op \in MsgOps THEN 1 ELSE 0) + CountMsgOps(Tail(q))

\* bound: a transcript capped at max may still take k more messages, and one
\* more call may be outstanding
RoomIn(max, k) ==
    /\ Len(messages) + CountMsgOps(inflight) + k <= max
    /\ Len(inflight) < MaxInflight

Room(k) == RoomIn(MaxMsgs, k)

\* an effect that resets the status but leaves the timer running
EffTimerKept(tm, ts, t) == t

\* the effect of App.tsx 552-560, run after every state change:
\* teach mode off forces the status to idle and cancels the timer
EffStatus(tm, ts) == IF ~tm /\ ts # "idle" THEN "idle" ELSE ts

EffTimer(tm, ts, t) == IF ~tm /\ ts # "idle" THEN FALSE ELSE t

\* closeCommandPalette
ClosePalette ==
    /\ showSuggestions' = FALSE
    /\ commandQuery' = <<>>

\* the remote service as a black box: what a call can come back with.
\* kind: "ok" (2xx, parsable body), "http" (non-success status),
\* "network" (fetch rejects), "badjson" (2xx whose body does not parse)
SessionIds == {"s1", "s2"}

StatusText == "Internal Server Error"

\* has/msg: whether the body carries its optional text field, and the text
Resp(kind, body, sid, has, msg, hits, silent) ==
    [kind |-> kind, body |-> body, sid |-> sid, has |-> has, msg |-> msg,
     hits |-> hits, silent |-> silent]

FailResponses ==
    { Resp("network", "", Null, FALSE, <<>>, 0, FALSE),
      Resp("badjson", "", Null, FALSE, <<>>, 0, FALSE),
      Resp("http", "", Null, FALSE, <<>>, 0, FALSE),
      Resp("http", "boom", Null, FALSE, <<>>, 0, FALSE) }

\* errorText || response.statusText
ErrText(r) == IF r.body # "" THEN r.body ELSE StatusText

(* ------------------------------------------------------------- palette *)
\* handleInputChange: the textarea's onChange
HandleInputChange(value) ==
    /\ input' = value
    /\ IF StartsWithSlash(value)
       THEN /\ showSuggestions' = TRUE
            /\ commandQuery' = FirstToken(Lower(Slice1(value)))
       ELSE ClosePalette
    /\ last' = Step("handleInputChange", "", <<>>)
    /\ UNCHANGED <<messages, sessionId, isSending, teachVars, sessVars,
                   audioVars, inflight>>
    /\ UNCHANGED <<authVars, renameVars, uploadVars>>

\* cmd.name.toLowerCase().includes(token) || cmd.usage.toLowerCase().includes(token)
MatchesQuery(cmd, tok) ==
    \/ Includes(Chars(Lower(<<cmd.name>>)), Chars(tok))
    \/ Includes(Chars(Lower(UsageAtoms(cmd))), Chars(tok))

\* filteredCommands: nothing while the palette is closed, the whole catalog
\* for an empty query, else the commands whose name or usage holds the query
FilteredCommands ==
    IF ~showSuggestions THEN <<>>
    ELSE LET tok == Trim(commandQuery)
         IN  IF tok = <<>> THEN COMMANDS
             ELSE SelectSeq(COMMANDS, LAMBDA cmd : MatchesQuery(cmd, tok))

\* command.usage.endsWith(" ") ? command.usage : `${command.usage} `
Template(command) ==
    LET usage == UsageAtoms(command)
    IN  IF usage[Len(usage)] = SP THEN usage ELSE usage \o <<SP>>

\* applyCommandTemplate(command): seed the buffer, close the palette
ApplyCommandTemplate(command) ==
    /\ input' = Template(command)
    /\ commandQuery' = <<>>
    /\ showSuggestions' = FALSE

GreetingText == "Hello! I am ready to learn."

\* a new chat that keeps the active-session pointer
HandleNewChatKeepsPointer ==
    /\ messages' = <<Msg("system", GreetingText)>>
    /\ input' = <<>>
    /\ ClosePalette
    /\ last' = Step("handleNewChat", "", <<>>)
    /\ UNCHANGED <<sessionId, isSending, teachVars, sessVars, audioVars, inflight>>
    /\ UNCHANGED <<authVars, renameVars, uploadVars>>

\* handleNewChat
HandleNewChat ==
    /\ messages' = <<Msg("system", GreetingText)>>
    /\ sessionId' = Null
    /\ input' = <<>>
    /\ ClosePalette
    /\ last' = Step("handleNewChat", "", <<>>)
    /\ UNCHANGED <<isSending, teachVars, sessVars, audioVars, inflight>>
    /\ UNCHANGED <<authVars, renameVars, uploadVars>>

(* ------------------------------------------------------------ chat send *)
ConnectionErrorText == "Connection error. Confirm the FastAPI server is running."

NoReplyText == "I did not receive a response from the model."

\* sendPrompt up to its await: arm the teach status, echo, set Sending, call
SendPromptStart(prompt) ==
    LET tm == teachMode
        ts1 == IF tm THEN "learning" ELSE "idle"
        t1 == IF tm THEN FALSE ELSE teachTimer
    IN  /\ teachStatus' = EffStatus(teachMode, ts1)
        /\ teachTimer' = EffTimer(teachMode, ts1, t1)
        /\ messages' = Append(messages, Msg("teacher", prompt))
        /\ isSending' = TRUE
        /\ inflight' = Append(inflight, Req("chat", prompt, sessionId, tm, ""))
        /\ UNCHANGED <<sessionId, teachMode, sessVars, audioVars>>

\* chat replies: has says whether data.response is a string, msg is that string
ChatResponses ==
    FailResponses \cup
    { Resp("ok", "", sid, TRUE, msg, 0, silent) :
        sid \in {Null, "s1"}, msg \in {<<"ok">>, <<SP>>}, silent \in BOOLEAN }
    \cup { Resp("ok", "", "s1", FALSE, <<>>, 0, FALSE) }

\* typeof data.response === "string" ? data.response.trim() : "", with the default
AssistantReply(r) ==
    LET raw == IF r.has THEN r.msg ELSE <<>>
        trimmed == Trim(raw)
    IN  IF Len(trimmed) > 0 THEN Str(trimmed) ELSE NoReplyText

\* a send that appends nothing when it fails
ChatAppendQuietFailure(r) ==
    IF r.kind = "ok" /\ ~r.silent THEN <<Msg("student", AssistantReply(r))>> ELSE <<>>

\* what the try/catch of sendPrompt appends for reply r
ChatAppend(r) ==
    CASE r.kind = "http" -> <<Msg("system", "Server error: " \o ErrText(r))>>
      [] r.kind \in {"network", "badjson"} -> <<Msg("system", ConnectionErrorText)>>
      [] r.kind = "ok" /\ ~r.silent -> <<Msg("student", AssistantReply(r))>>
      [] OTHER -> <<>>

\* a finally block that leaves the teach status alone
ChatFinallyStatusKept(tmDuringSend, silentResponse, ts) == ts

\* a finally block that never reports "learned"
ChatFinallyStatusIdle(tmDuringSend, silentResponse, ts) ==
    IF tmDuringSend THEN "idle" ELSE ts

\* the finally block of sendPrompt: teach status after the turn
ChatFinallyStatus(tmDuringSend, silentResponse, ts) ==
    IF tmDuringSend
    THEN (IF silentResponse THEN "learned" ELSE "idle")
    ELSE ts

ChatFinallyTimer(tmDuringSend, silentResponse, t) ==
    IF tmDuringSend /\ silentResponse THEN TRUE ELSE t

\* a send that never takes the server's session id
AdoptedSessionCaptured(r, captured) == captured

\* data.session_id ?? sessionId, with the sessionId the closure captured
AdoptedSession(r, captured) == IF r.sid # Null THEN r.sid ELSE captured

\* a finally block that leaves the Sending flag alone
FinallySendingKept == isSending

\* setIsSending(false) in the finally block
FinallySending == FALSE

\* sendPrompt after its await, for the call at position i coming back with r
ChatSettle(i, r) ==
    /\ i \in DOMAIN inflight
    /\ inflight[i].op = "chat"
    /\ r \in ChatResponses
    /\ LET q == inflight[i]
           ok == r.kind = "ok"
           silentResponse == ok /\ r.silent
           ts1 == ChatFinallyStatus(q.tm, silentResponse, teachStatus)
           t1 == ChatFinallyTimer(q.tm, silentResponse, teachTimer)
           rest == RemoveAt(inflight, i)
       IN  /\ messages' = messages \o ChatAppend(r)
           /\ sessionId' = IF ok THEN AdoptedSession(r, q.sid) ELSE sessionId
           /\ isSending' = FinallySending
           /\ teachStatus' = EffStatus(teachMode, ts1)
           /\ teachTimer' = EffTimer(teachMode, ts1, t1)
           \* fetchSessions() is called, not awaited, on the success path only;
           \* it is the fetchSessions of the render that sent the prompt, so
           \* the request carries the token held then
           /\ inflight' = IF ok
                          THEN Append(rest, [Req("sidebar_sessions", "", Null, FALSE, "")
                                               EXCEPT !.auth = q.auth])
                          ELSE rest
           /\ refreshing' = IF ok THEN TRUE ELSE refreshing
           /\ last' = StepOn("chatSettle",
                             IF silentResponse THEN "silent" ELSE r.kind,
                             IF ok THEN <<"sidebar_sessions">> ELSE <<>>,
                             <<r.sid, q.sid>>)
           /\ UNCHANGED <<input, showSuggestions, commandQuery, teachMode,
                          sessions, audioVars>>
    /\ UNCHANGED <<authVars, renameVars, uploadVars>>

\* the auto-reset timer of App.tsx 666-669 fires
TeachTimerFire ==
    /\ teachTimer
    /\ teachStatus' = EffStatus(teachMode, "idle")
    /\ teachTimer' = FALSE
    /\ last' = Step("teachTimer", "", <<>>)
    /\ UNCHANGED <<coreVars, teachMode, sessVars, audioVars, inflight>>
    /\ UNCHANGED <<authVars, renameVars, uploadVars>>

(* --------------------------------------------------------- document upload *)
\* Array.prototype.join(", ") on names
RECURSIVE JoinComma(_)
JoinComma(names) ==
    IF names = <<>> THEN ""
    ELSE IF Len(names) = 1 THEN names[1]
    ELSE names[1] \o ", " \o JoinComma(Tail(names))

\* a reply of POST /documents/upload.  kind "badshape" is a 2xx body that
\* parses to null; hasUploaded/hasErrors: whether the field is an array;
\* uploaded lists the filename of each stored item ("" when it has none),
\* errors lists [filename, error] ("" for a field that is missing)
UpResp(kind, body, hasUploaded, uploaded, hasErrors, errors) ==
    [kind |-> kind, body |-> body, hasUploaded |-> hasUploaded, uploaded |-> uploaded,
     hasErrors |-> hasErrors, errors |-> errors]

\* handleFileInputChange up to its await: files is the list the file input
\* delivers.  None: return; more than five: a notice and no call; else
\* isUploading and POST /documents/upload through authedFetch
HandleFileInputChange(files) ==
    /\ IF Len(files) = 0
       THEN /\ last' = Step("handleFileInputChange", "none", <<>>)
            /\ UNCHANGED <<messages, isUploading, inflight>>
       ELSE IF Len(files) > 5
       THEN /\ messages' = Append(messages, Msg("system", "Please upload up to 5 files at a time."))
            /\ last' = Step("handleFileInputChange", "toomany", <<>>)
            /\ UNCHANGED <<isUploading, inflight>>
       ELSE /\ isUploading' = TRUE
            /\ inflight' = Append(inflight,
                                  Req("documents_upload", JoinComma(files), sessionId,
                                      teachMode, ""))
            /\ last' = Step("handleFileInputChange", "upload", <<"documents_upload">>)
            /\ UNCHANGED messages
    /\ UNCHANGED <<input, sessionId, isSending, showSuggestions, commandQuery,
                   teachVars, sessVars, audioVars, authVars, renameVars>>

\* item?.filename || "document"
UploadedName(filename) == IF filename # "" THEN filename ELSE "document"

\* `Uploaded ${uploaded.length} document(s): ${names}.` when any was stored
UploadedNotice(uploaded) ==
    IF Len(uploaded) > 0
    THEN <<Msg("system",
               "Uploaded " \o ToString(Len(uploaded)) \o " document(s): "
               \o JoinComma([k \in DOMAIN uploaded |-> UploadedName(uploaded[k])]) \o ".")>>
    ELSE <<>>

\* errors.forEach: `${err.filename}: ${err.error}` for entries that have both
RECURSIVE ErrorNotices(_)
ErrorNotices(errors) ==
    IF errors = <<>> THEN <<>>
    ELSE (IF Head(errors).filename # "" /\ Head(errors).error # ""
          THEN <<Msg("system", Head(errors).filename \o ": " \o Head(errors).error)>>
          ELSE <<>>) \o ErrorNotices(Tail(errors))

\* what the reply of an upload appends to the transcript
UploadAppend(r) ==
    IF r.kind = "ok"
    THEN UploadedNotice(IF r.hasUploaded THEN r.uploaded ELSE <<>>)
         \o ErrorNotices(IF r.hasErrors THEN r.errors ELSE <<>>)
    ELSE IF r.kind = "http"
    THEN <<Msg("system", "Upload failed: " \o ErrText(r))>>
    ELSE <<Msg("system", "Could not upload documents. Please try again.")>>

\* handleFileInputChange after its await; the finally clears isUploading
UploadSettle(i, r) ==
    /\ i \in DOMAIN inflight
    /\ inflight[i].op = "documents_upload"
    /\ messages' = messages \o UploadAppend(r)
    /\ isUploading' = FALSE
    /\ inflight' = RemoveAt(inflight, i)
    /\ last' = Step("uploadSettle", r.kind, <<>>)
    /\ UNCHANGED <<input, sessionId, isSending, showSuggestions, commandQuery,
                   teachVars, sessVars, audioVars, authVars, renameVars>>

(* --------------------------------------------------- command interpreter *)
Q == "\""

HelpHintText == "Type /help to see the available commands."

NoActiveSessionText == "No active session. Use /session new to begin."

\* commands that need args.join(" ").trim() to be non-empty
QueryCommands == {"topic", "search_topic", "search", "vectorsearch",
                  "documentvectorsearch"}

\* commands that go to the server without an argument check
BareCommands == {"all", "reset"}

CmdOps == QueryCommands \cup BareCommands \cup {"session", "summary"}

\* the literal usage messages of handleCommand
UsageText(n) ==
    CASE n = "topic" -> "Usage: /topic <new_topic>"
      [] n = "session" -> "Usage: /session new"
      [] n = "search_topic" -> "Usage: /search_topic <keywords>"
      [] n = "search" -> "Usage: /search <keywords>"
      [] n = "vectorsearch" -> "Usage: /vectorsearch <query>"
      [] n = "documentvectorsearch" -> "Usage: /documentvectorsearch <query>"

UnknownText(normalized) == "Unknown command " \o Q \o "/" \o normalized \o Q \o ". Try /help."

\* rawCommand.slice(1).trim()
Stripped(rawCommand) == Trim(Slice1(rawCommand))

\* commandToken.toLowerCase()
Normalized(rawCommand) == Str(Lower(SplitWs(Stripped(rawCommand))[1]))

\* the remaining tokens
Args(rawCommand) == Tail(SplitWs(Stripped(rawCommand)))

\* args.join(" ").trim()
ArgText(rawCommand) == Str(Trim(JoinSp(Args(rawCommand))))

\* (args[0] || "").toLowerCase()
SubCommand(rawCommand) ==
    IF Args(rawCommand) = <<>> THEN "" ELSE Str(Lower(Args(rawCommand)[1]))

Plan(texts, call) == [texts |-> texts, call |-> call]

\* mutant: the call goes out twice
CallPlanTwice(n, arg, sid) ==
    Plan(<<>>, <<Req(n, arg, sid, FALSE, ""), Req(n, arg, sid, FALSE, "")>>)

\* one remote call to the command's endpoint, nothing shown until it settles
CallPlan(n, arg, sid) == Plan(<<>>, <<Req(n, arg, sid, FALSE, "")>>)

\* mutant: the argument check is missing and the call goes out with no argument
MissingArgPlanCalls(n) == Plan(<<>>, <<Req(n, "", Null, FALSE, "")>>)

\* mutant: an unrecognised word falls through to a remote call
UnknownPlanForwarded(n) == Plan(<<>>, <<Req("all", "", Null, FALSE, "")>>)

\* the `if (!topic)` / `if (!query)` / `else` branches: usage, and return
MissingArgPlan(n) ==Plan(<<UsageText(n)>>, <<>>)

\* the last line of handleCommand
UnknownPlan(n) == Plan(<<UnknownText(n)>>, <<>>)

\* handleCommand up to its first await: the feedback shown at once, and the
\* remote call issued (none, or one request)
CommandPlan(rawCommand, sid) ==
    IF Stripped(rawCommand) = <<>> THEN Plan(<<HelpHintText>>, <<>>)
    ELSE LET n == Normalized(rawCommand)
             arg == ArgText(rawCommand)
         IN  CASE n \in QueryCommands ->
                    IF arg = "" THEN MissingArgPlan(n) ELSE CallPlan(n, arg, sid)
               [] n = "session" ->
                    IF SubCommand(rawCommand) = "new"
                    THEN CallPlan("session", "", sid)
                    ELSE MissingArgPlan(n)
               [] n = "summary" ->
                    IF sid = Null THEN Plan(<<NoActiveSessionText>>, <<>>)
                    ELSE CallPlan("summary", sid, sid)
               [] n \in BareCommands -> CallPlan(n, "", sid)
               [] n = "help" -> Plan(<<HelpText>>, <<>>)
               [] OTHER -> UnknownPlan(n)

\* appendSystem(...systemTexts)
SystemMsgs(texts) == [i \in DOMAIN texts |-> Msg("system", texts[i])]

CallOps(calls) == [i \in DOMAIN calls |-> calls[i].op]

\* mutant: the command is echoed as an operator message before its feedback
HandleCommandStartEcho(rawCommand) ==
    LET plan == CommandPlan(rawCommand, sessionId)
    IN  /\ messages' = Append(messages, Msg("teacher", Str(rawCommand)))
                       \o SystemMsgs(plan.texts)
        /\ inflight' = inflight \o plan.call
        /\ UNCHANGED <<sessionId, isSending, teachVars, sessVars, audioVars>>

\* handleCommand(rawCommand), synchronous part
HandleCommandStart(rawCommand) ==
    LET plan == CommandPlan(rawCommand, sessionId)
    IN  /\ messages' = messages \o SystemMsgs(plan.texts)
        /\ inflight' = inflight \o plan.call
        /\ UNCHANGED <<sessionId, isSending, teachVars, sessVars, audioVars>>

\* what the synchronous part of processInput(rawInput) issues
ProcessCalls(rawInput) ==
    LET trimmed == Trim(rawInput)
    IN  IF trimmed = <<>> THEN <<>>
        ELSE IF StartsWithSlash(trimmed) THEN CallOps(CommandPlan(trimmed, sessionId).call)
        ELSE <<"chat">>

\* a router that looks for the slash before trimming
RouteOfUntrimmed(rawInput) ==
    IF rawInput = <<>> THEN "none"
    ELSE IF StartsWithSlash(rawInput) THEN "command" ELSE "chat"

\* which handler processInput routes to
RouteOf(rawInput) ==
    LET trimmed == Trim(rawInput)
    IN  IF trimmed = <<>> THEN "none"
        ELSE IF StartsWithSlash(trimmed) THEN "command" ELSE "chat"

\* processInput(rawInput): trim, clear the buffer, route
ProcessInput(rawInput) ==
    LET trimmed == Trim(rawInput)
        route == RouteOf(rawInput)
    IN  /\ last' = StepOn("processInput", route, ProcessCalls(rawInput), rawInput)
        /\ IF route = "none"
           THEN UNCHANGED <<coreVars, teachVars, sessVars, audioVars, inflight>>
           ELSE /\ input' = <<>>
                /\ ClosePalette
                /\ IF route = "command"
                   THEN HandleCommandStart(trimmed)
                   ELSE SendPromptStart(Str(trimmed))
    /\ UNCHANGED <<authVars, renameVars, uploadVars>>

\* the textarea's onKeyDown for Escape, Tab and Enter without Shift: Escape
\* closes an open palette, Tab seeds the buffer with the first suggestion,
\* Enter submits the buffer; a key that meets none of the tests does nothing
TextareaKeyDown(key) ==
    IF key = "Escape" /\ showSuggestions
    THEN /\ ClosePalette
         /\ last' = Step("onKeyDown", key, <<>>)
         /\ UNCHANGED <<messages, input, sessionId, isSending, teachVars, sessVars,
                        audioVars, inflight, authVars, renameVars, uploadVars>>
    ELSE IF key = "Tab" /\ showSuggestions /\ Len(FilteredCommands) > 0
    THEN /\ ApplyCommandTemplate(FilteredCommands[1])
         /\ last' = Step("onKeyDown", key, <<>>)
         /\ UNCHANGED <<messages, sessionId, isSending, teachVars, sessVars,
                        audioVars, inflight, authVars, renameVars, uploadVars>>
    ELSE IF key = "Enter"
    THEN ProcessInput(input)
    ELSE /\ last' = Step("onKeyDown", "", <<>>)
         /\ UNCHANGED <<coreVars, teachVars, sessVars, audioVars, inflight,
                        authVars, renameVars, uploadVars>>

(* ------------------------------------------- command continuations *)
\* the prefix of the feedback for a non-success status
FailPrefix(op) ==
    CASE op = "topic" -> "Topic update failed: "
      [] op = "session" -> "Session start failed: "
      [] op = "summary" -> "Summary failed: "
      [] op = "search_topic" -> "Topic search failed: "
      [] op = "search" -> "Search failed: "
      [] op = "vectorsearch" -> "Vector search failed: "
      [] op = "documentvectorsearch" -> "Document vector search failed: "
      [] op = "all" -> "Fetch failed: "
      [] op = "reset" -> "Reset failed: "

\* the feedback of the catch block
CatchText(op) ==
    CASE op = "topic" -> "Could not reach the topic endpoint."
      [] op = "session" -> "Could not start a new session."
      [] op = "summary" -> "Could not retrieve the summary."
      [] op = "search_topic" -> "Could not reach the search endpoint."
      [] op = "search" -> "Could not reach the search API."
      [] op = "vectorsearch" -> "Could not reach the vectorsearch endpoint."
      [] op = "documentvectorsearch" -> "Could not reach the documentvectorsearch endpoint."
      [] op = "all" -> "Could not fetch stored memories."
      [] op = "reset" -> "Could not reach the reset endpoint."

\* the one item a non-empty result list holds: [memory |-> "m1"], no score,
\* no source, no metadata
HitText == "m1"

\* the feedback formatted from a success payload: r.has/r.msg is the optional
\* message or summary field, r.hits the length of the result list
OkText(op, arg, r) ==
    CASE op = "topic" ->
            IF r.has THEN Str(r.msg) ELSE "Topic set to '" \o arg \o "'."
      [] op = "session" -> IF r.has THEN Str(r.msg) ELSE "New session started."
      [] op = "summary" ->
            "Session summary:\n\n" \o (IF r.has THEN Str(r.msg) ELSE "undefined")
      [] op = "search_topic" ->
            IF r.hits = 0 THEN "No memories matched " \o Q \o arg \o Q \o "."
            ELSE "Memories mentioning " \o Q \o arg \o Q \o ":\n\n1. " \o HitText
                 \o "\n   score: ?"
      [] op = "search" ->
            IF r.hits = 0 THEN "No memories matched " \o Q \o arg \o Q \o "."
            ELSE "Search results for " \o Q \o arg \o Q \o ":\n\n1. " \o HitText
      [] op = "vectorsearch" ->
            IF r.hits = 0 THEN "No vector hits for " \o Q \o arg \o Q \o "."
            ELSE "Vector search results for " \o Q \o arg \o Q \o ":\n\n1. [unknown] "
                 \o HitText \o "... (score: ?)"
      [] op = "documentvectorsearch" ->
            IF r.hits = 0 THEN "No document matches for " \o Q \o arg \o Q \o "."
            ELSE "Document vector search results for " \o Q \o arg \o Q
                 \o ":\n\n1. Untitled - " \o HitText \o "... (score: ?)"
      [] op = "all" ->
            IF r.hits = 0 THEN "No stored memories yet."
            ELSE "Complete memory listing:\n\n1. " \o HitText
      [] op = "reset" -> IF r.has THEN Str(r.msg) ELSE "Memory reset complete."

CmdResponses ==
    FailResponses \cup
    { Resp("ok", "", sid, has, IF has THEN <<"done">> ELSE <<>>, hits, FALSE) :
        sid \in {Null, "s2"}, has \in BOOLEAN, hits \in {0, 1} }

\* the feedback a settled command call appends
CmdFeedback(q, r) ==
    CASE r.kind = "http" -> FailPrefix(q.op) \o ErrText(r)
      [] r.kind \in {"network", "badjson"} -> CatchText(q.op)
      [] OTHER -> OkText(q.op, q.arg, r)

\* mutant: the new-session branch runs whatever POST /session answered
StartsNewSessionAnyReply(q, r) == q.op = "session"

\* the try block of "/session new" gets past res.ok and res.json() and runs
\* handleNewChat(), setSessionId and pushSystemMessage
StartsNewSession(q, r) == q.op = "session" /\ r.kind = "ok"

\* handleCommand after its await, for the call at position i coming back with r
CmdSettle(i, r) ==
    /\ i \in DOMAIN inflight
    /\ inflight[i].op \in CmdOps
    /\ r \in CmdResponses
    /\ LET q == inflight[i]
           newSession == StartsNewSession(q, r)
       IN  \* "/session new": handleNewChat(), setSessionId, pushSystemMessage
           /\ messages' = IF newSession
                          THEN <<Msg("system", GreetingText),
                                 Msg("system", CmdFeedback(q, r))>>
                          ELSE Append(messages, Msg("system", CmdFeedback(q, r)))
           /\ sessionId' = IF newSession THEN r.sid ELSE sessionId
           /\ input' = IF newSession THEN <<>> ELSE input
           /\ showSuggestions' = IF newSession THEN FALSE ELSE showSuggestions
           /\ commandQuery' = IF newSession THEN <<>> ELSE commandQuery
           /\ inflight' = RemoveAt(inflight, i)
           /\ last' = Step("cmdSettle:" \o q.op, r.kind, <<>>)
           /\ UNCHANGED <<isSending, teachVars, sessVars, audioVars>>
    /\ UNCHANGED <<authVars, renameVars, uploadVars>>

(* ------------------------------------------------------ session registry *)
\* A continuation that an await has made ready runs before any other event
\* (it is a microtask); such a continuation is a record whose op is "resume".
Quiescent == \A i \in DOMAIN inflight : inflight[i].op # "resume"

ListResp(kind, list) == [kind |-> kind, list |-> list]

\* replies of GET /sidebar_sessions; a summary is reduced to its session_id
ListResponses ==
    { ListResp("network", <<>>), ListResp("http", <<>>),
      ListResp("ok", <<>>), ListResp("ok", <<"s1">>), ListResp("ok", <<"s2", "s1">>) }

\* fetchSessions() up to its await, called by a handler that goes on as cont
\* once it returns ("" when nobody awaits it)
FetchSessionsReq(arg, sid, cont) == Req("sidebar_sessions", arg, sid, FALSE, cont)

\* the sidebar's refresh button: fetchSessions()
HandleRefresh ==
    /\ refreshing' = TRUE
    /\ inflight' = Append(inflight, FetchSessionsReq("", Null, ""))
    /\ last' = Step("fetchSessions", "", <<"sidebar_sessions">>)
    /\ UNCHANGED <<coreVars, teachVars, sessions, audioVars>>
    /\ UNCHANGED <<authVars, renameVars, uploadVars>>

\* what the awaiting handler goes on with: the initialise effect takes the
\* session_id of the first entry of the returned list ("" when the list is
\* empty or the fetch failed and [] was returned), handleDeleteSession its id
ResumeArg(q, r) ==
    IF q.cont = "init"
    THEN (IF r.kind = "ok" /\ r.list # <<>> THEN r.list[1] ELSE "")
    ELSE q.arg

\* whether the fetch at position i comes back while a list fetch that was
\* issued before it is still outstanding
Overtakes(q, i) ==
    IF \E j \in 1..(i - 1) : q[j].op = "sidebar_sessions" THEN "overtook" ELSE "inorder"

\* fetchSessions() after its await: install the list, clear the flag, return
FetchSessionsSettle(i, r) ==
    /\ i \in DOMAIN inflight
    /\ inflight[i].op = "sidebar_sessions"
    /\ r \in ListResponses \cup {ListResp("ok", <<"s2">>)}
    /\ LET q == inflight[i]
       IN  /\ sessions' = IF r.kind = "ok" THEN r.list ELSE sessions
           /\ refreshing' = FALSE
           /\ inflight' = IF q.cont = "" THEN RemoveAt(inflight, i)
                          ELSE [inflight EXCEPT ![i] =
                                  [Req("resume", ResumeArg(q, r), q.sid, q.tm, q.cont)
                                     EXCEPT !.auth = q.auth]]
           /\ last' = StepOn("fetchSessionsSettle", r.kind, <<>>,
                             <<q.cont, Overtakes(inflight, i)>>)
           /\ UNCHANGED <<coreVars, teachVars, audioVars>>
    /\ UNCHANGED <<authVars, renameVars, uploadVars>>

SessionDeletedText ==
    "Session deleted. Start a new chat or pick another conversation from the list."

DeleteFailedText == "Failed to delete session."

\* handleDeleteSession(id) up to the await in deleteSession: the confirm dialog
\* was accepted and DELETE /delete_session is sent; the closure holds sessionId
HandleDeleteSession(sessionIdToDelete) ==
    /\ inflight' = Append(inflight,
                          Req("delete_session", sessionIdToDelete, sessionId, FALSE, ""))
    /\ last' = Step("handleDeleteSession", sessionIdToDelete, <<"delete_session">>)
    /\ UNCHANGED <<coreVars, teachVars, sessVars, audioVars>>
    /\ UNCHANGED <<authVars, renameVars, uploadVars>>

\* deleteSession after its fetch: a failure throws into handleDeleteSession's
\* catch; a success goes on to await fetchSessions()
DeleteSettle(i, kind) ==
    /\ i \in DOMAIN inflight
    /\ inflight[i].op = "delete_session"
    /\ kind \in {"ok", "http", "network"}
    /\ LET q == inflight[i]
       IN  /\ messages' = IF kind = "ok" THEN messages
                          ELSE Append(messages, Msg("system", DeleteFailedText))
           /\ refreshing' = IF kind = "ok" THEN TRUE ELSE refreshing
           /\ inflight' = IF kind = "ok"
                          THEN Append(RemoveAt(inflight, i),
                                      [FetchSessionsReq(q.arg, q.sid, "delete")
                                         EXCEPT !.auth = q.auth])
                          ELSE RemoveAt(inflight, i)
           /\ last' = Step("deleteSettle", kind,
                           IF kind = "ok" THEN <<"sidebar_sessions">> ELSE <<>>)
           /\ UNCHANGED <<input, sessionId, isSending, showSuggestions, commandQuery,
                          teachVars, sessions, audioVars>>
    /\ UNCHANGED <<authVars, renameVars, uploadVars>>

\* whether handleDeleteSession resets the chat panel: it compares the
\* sessionId its closure captured with the id it deleted
DeleteResets(q) == q.sid = q.arg

\* handleDeleteSession after `await deleteSession(...)` has returned
ResumeDelete(i) ==
    /\ i \in DOMAIN inflight
    /\ inflight[i].op = "resume"
    /\ inflight[i].cont = "delete"
    /\ LET q == inflight[i]
       IN  /\ sessionId' = IF DeleteResets(q) THEN Null ELSE sessionId
           /\ messages' = IF DeleteResets(q)
                          THEN <<Msg("system", SessionDeletedText)>>
                          ELSE messages
           /\ inflight' = RemoveAt(inflight, i)
           /\ last' = Step("resumeDelete", q.arg, <<>>)
           /\ UNCHANGED <<input, isSending, showSuggestions, commandQuery,
                          teachVars, sessVars, audioVars>>
    /\ UNCHANGED <<authVars, renameVars, uploadVars>>

(* ----------------------------------------------------------------- rename *)
ProvideTitleText == "Provide a new title before saving."

RenameFailedText == "Failed to rename session."

\* handleStartRename(sessionId, currentTitle)
HandleStartRename(id, currentTitle) ==
    /\ editingSession' = id
    /\ newTitle' = currentTitle
    /\ last' = StepOn("handleStartRename", id, <<>>, currentTitle)
    /\ UNCHANGED <<coreVars, teachVars, sessVars, audioVars, authVars, uploadVars, inflight>>

\* onTitleChange = setNewTitle: the title field is edited
SetNewTitle(value) ==
    /\ newTitle' = value
    /\ last' = StepOn("setNewTitle", "", <<>>, value)
    /\ UNCHANGED <<coreVars, teachVars, sessVars, audioVars, authVars, uploadVars, inflight,
                   editingSession>>

\* handleRenameCancel
HandleRenameCancel ==
    /\ editingSession' = Null
    /\ newTitle' = <<>>
    /\ last' = Step("handleRenameCancel", "", <<>>)
    /\ UNCHANGED <<coreVars, teachVars, sessVars, audioVars, authVars, uploadVars, inflight>>

\* encodeURIComponent on the atoms a title is typed from
EncodeURIComponent(title) ==
    [k \in DOMAIN title |->
        IF title[k] = SP THEN "%20" ELSE IF title[k] = Slash THEN "%2F" ELSE title[k]]

\* mutant: the title is tested as typed
TitleMissingUntrimmed(title) == title = <<>>

\* !newTitle.trim()
TitleMissing(title) == Trim(title) = <<>>

\* handleRenameSession(sessionId) up to the await in renameSession: the
\* request carries the id in the record's sid and the encoded title in arg
HandleRenameSession(id) ==
    /\ IF TitleMissing(newTitle)
       THEN /\ messages' = Append(messages, Msg("system", ProvideTitleText))
            /\ last' = Step("handleRenameSession", "missing", <<>>)
            /\ UNCHANGED inflight
       ELSE /\ inflight' = Append(inflight,
                                  Req("rename_session",
                                      Str(EncodeURIComponent(Trim(newTitle))),
                                      id, FALSE, "rename"))
            /\ last' = Step("handleRenameSession", "sent", <<"rename_session">>)
            /\ UNCHANGED messages
    /\ UNCHANGED <<input, sessionId, isSending, showSuggestions, commandQuery,
                   teachVars, sessVars, audioVars, authVars, renameVars, uploadVars>>

\* renameSession after its fetch: a failure throws into the catch of
\* handleRenameSession; a success goes on to await fetchSessions()
RenameSettle(i, kind) ==
    /\ i \in DOMAIN inflight
    /\ inflight[i].op = "rename_session"
    /\ kind \in {"ok", "http", "network"}
    /\ LET q == inflight[i]
       IN  /\ messages' = IF kind = "ok" THEN messages
                          ELSE Append(messages, Msg("system", RenameFailedText))
           /\ refreshing' = IF kind = "ok" THEN TRUE ELSE refreshing
           /\ inflight' = IF kind = "ok"
                          THEN Append(RemoveAt(inflight, i),
                                      [FetchSessionsReq(q.arg, q.sid, "rename")
                                         EXCEPT !.auth = q.auth])
                          ELSE RemoveAt(inflight, i)
           /\ last' = Step("renameSettle", kind,
                           IF kind = "ok" THEN <<"sidebar_sessions">> ELSE <<>>)
           /\ UNCHANGED <<input, sessionId, isSending, showSuggestions, commandQuery,
                          teachVars, sessions, audioVars, authVars, renameVars, uploadVars>>

\* handleRenameSession after `await renameSession(...)` has returned:
\* setEditingSession(null); setNewTitle("")
ResumeRename(i) ==
    /\ i \in DOMAIN inflight
    /\ inflight[i].op = "resume"
    /\ inflight[i].cont = "rename"
    /\ editingSession' = Null
    /\ newTitle' = <<>>
    /\ inflight' = RemoveAt(inflight, i)
    /\ last' = Step("resumeRename", inflight[i].sid, <<>>)
    /\ UNCHANGED <<coreVars, teachVars, sessVars, audioVars, authVars, uploadVars>>

LoadFailedText == "Failed to load session."

\* a stored message as /session_messages returns it
Stored(role, content) == [role |-> role, content |-> content]

HistResp(kind, list) == [kind |-> kind, list |-> list]

\* replies of GET /session_messages.  "badshape" is a 2xx body that parses
\* but whose messages field cannot be mapped (null body, non-array field)
HistoryResponses ==
    { HistResp("network", <<>>), HistResp("http", <<>>), HistResp("badjson", <<>>),
      HistResp("badshape", <<>>),
      HistResp("ok", <<>>),
      HistResp("ok", <<Stored("user", "q1"), Stored("assistant", "a1")>>),
      HistResp("ok", <<Stored("system", "n1"), Stored("assistant", "a2")>>) }

\* a stored history in which the assistant has answered twice
TwoReplyHistory ==
    <<Stored("assistant", "a0"), Stored("user", "q1"), Stored("assistant", "a1")>>

\* mutant: a stored system note is shown as a system message
HistoryRoleVerbatim(role) ==
    IF role = "assistant" THEN "student"
    ELSE IF role = "system" THEN "system" ELSE "teacher"

\* m.role === "assistant" ? "student" : "teacher"
HistoryRole(role) == IF role = "assistant" THEN "student" ELSE "teacher"

Hydrate(list) == [k \in DOMAIN list |-> Msg(HistoryRole(list[k].role), list[k].content)]

\* handleSelectSession(id) up to its await
HandleSelectSession(selectedSessionId) ==
    /\ inflight' = Append(inflight,
                          Req("session_messages", selectedSessionId, sessionId, FALSE, ""))
    /\ last' = Step("handleSelectSession", selectedSessionId, <<"session_messages">>)
    /\ UNCHANGED <<coreVars, teachVars, sessVars, audioVars>>
    /\ UNCHANGED <<authVars, renameVars, uploadVars>>

\* a selection that moves the pointer whatever the fetch returns
SelectSetsPointerAlways(kind) == TRUE

\* whether the try block gets as far as setSessionId(selectedSessionId)
SelectSetsPointer(kind) == kind \in {"ok", "badshape"}

\* mutant: the failure message replaces the transcript
SelectCatchReset(msgs) == <<Msg("system", LoadFailedText)>>

\* the catch block: pushSystemMessage("Failed to load session.")
SelectCatch(msgs) == Append(msgs, Msg("system", LoadFailedText))

\* what a successful fetch was asked for and returned, for the record of the
\* step: the selected id, then role and content of every stored message
RECURSIVE FlatHistory(_)
FlatHistory(list) ==
    IF list = <<>> THEN <<>>
    ELSE <<Head(list).role, Head(list).content>> \o FlatHistory(Tail(list))

Fetched(r, selectedSessionId) ==
    IF r.kind = "ok" THEN <<selectedSessionId>> \o FlatHistory(r.list) ELSE <<>>

\* handleSelectSession after its await
SelectSettle(i, r) ==
    /\ i \in DOMAIN inflight
    /\ inflight[i].op = "session_messages"
    /\ r \in HistoryResponses \cup {HistResp("ok", TwoReplyHistory)}
    /\ LET q == inflight[i]
       IN  /\ sessionId' = IF SelectSetsPointer(r.kind) THEN q.arg ELSE sessionId
           /\ messages' = IF r.kind = "ok" THEN Hydrate(r.list)
                          ELSE SelectCatch(messages)
           /\ inflight' = RemoveAt(inflight, i)
           /\ last' = StepOn("selectSettle", r.kind, <<>>, Fetched(r, q.arg))
           /\ UNCHANGED <<input, isSending, showSuggestions, commandQuery,
                          teachVars, sessVars, audioVars>>
    /\ UNCHANGED <<authVars, renameVars, uploadVars>>

(* ------------------------------------------------------------ teach mode *)
TeachResp(kind, value) == [kind |-> kind, teach_mode |-> value]

TeachResponses ==
    { TeachResp("network", FALSE), TeachResp("http", FALSE),
      TeachResp("ok", FALSE), TeachResp("ok", TRUE) }

TeachUnreachableText == "Could not reach the Teach Mode endpoint."

\* handleToggleTeachMode up to the await in toggleTeachMode(!teachMode);
\* the closure holds teachMode
HandleToggleTeachMode ==
    /\ inflight' = Append(inflight, Req("teach_mode_set", "", Null, teachMode, ""))
    /\ last' = Step("handleToggleTeachMode", "", <<"teach_mode_set">>)
    /\ UNCHANGED <<coreVars, teachVars, sessVars, audioVars>>
    /\ UNCHANGED <<authVars, renameVars, uploadVars>>

\* `Teach Mode ${!teachMode ? "ON" : "OFF"}.` with the captured teachMode
ToggleText(tm) == "Teach Mode " \o (IF ~tm THEN "ON" ELSE "OFF") \o "."

\* mutant: the value asked for is installed, whatever the server answered
AdoptedTeachModeRequested(r, requested) == requested

\* setTeachMode(Boolean(data?.teach_mode))
AdoptedTeachMode(r, requested) == r.teach_mode

\* what toggleTeachMode returns: true from the try block, false from the catch
ToggleResult(r) == r.kind = "ok"

BoolStr(b) == IF b THEN "true" ELSE "false"

\* for the record of the step: the result returned, the value asked for and
\* the value the server answered with
ToggleReturned(r, requested) ==
    <<BoolStr(ToggleResult(r)), BoolStr(requested), BoolStr(r.teach_mode)>>

\* toggleTeachMode after its await, then handleToggleTeachMode's message
ToggleSettle(i, r) ==
    /\ i \in DOMAIN inflight
    /\ inflight[i].op = "teach_mode_set"
    /\ r \in TeachResponses
    /\ LET q == inflight[i]
           tm1 == IF r.kind = "ok" THEN AdoptedTeachMode(r, ~q.tm) ELSE teachMode
       IN  /\ teachMode' = tm1
           /\ teachStatus' = EffStatus(tm1, teachStatus)
           /\ teachTimer' = EffTimer(tm1, teachStatus, teachTimer)
           /\ messages' = Append(messages,
                                 Msg("system", IF ToggleResult(r) THEN ToggleText(q.tm)
                                               ELSE TeachUnreachableText))
           /\ inflight' = RemoveAt(inflight, i)
           /\ last' = StepOn("toggleSettle", r.kind, <<>>, ToggleReturned(r, ~q.tm))
           /\ UNCHANGED <<input, sessionId, isSending, showSuggestions, commandQuery,
                          sessVars, audioVars>>
    /\ UNCHANGED <<authVars, renameVars, uploadVars>>

(* ------------------------------------------------------------------ auth *)
\* Boolean(token && user)
IsAuthenticated == token # Null /\ user # Null

Accounts == {"A", "B"}

\* the access token the server issues to an account
TokenOf(account) == "t" \o account

\* the Logout button: clearAuth(); the effect of App.tsx 260-264 then
\* clears initialisedRef.  No other state of the chat shell is touched.
Logout ==
    /\ token' = Null
    /\ user' = Null
    /\ initialised' = FALSE
    /\ last' = Step("logout", "", <<>>)
    /\ UNCHANGED <<coreVars, teachVars, sessVars, audioVars, renameVars, uploadVars, inflight>>

\* login(email, password) up to the await of POST /auth/login
Login(account) ==
    /\ inflight' = Append(inflight, Req("auth_login", account, sessionId, teachMode, ""))
    /\ last' = Step("login", account, <<"auth_login">>)
    /\ UNCHANGED <<coreVars, teachVars, sessVars, audioVars, authVars, renameVars, uploadVars>>

\* the initialise effect of App.tsx 240-258 starts when the client has become
\* authenticated and initialisedRef is clear: it awaits refreshTeachMode()
InitialiseDue(tok, usr) == tok # Null /\ usr # Null /\ ~initialised

\* login after POST /auth/login: kind is "ok" (a body with access_token),
\* "notoken" (a 2xx body without one), "http" or "network".  With a token it
\* stores it and awaits fetchProfile(access_token); otherwise it returns
\* { success: false }.  When a user is still held (a profile reply that came
\* after a sign-out), storing the token makes the client authenticated at
\* once and the initialise effect starts in the same step.
LoginSettle(i, kind) ==
    /\ i \in DOMAIN inflight
    /\ inflight[i].op = "auth_login"
    /\ LET q == inflight[i]
           tok == TokenOf(q.arg)
           me == [Req("auth_me", q.arg, q.sid, q.tm, "login") EXCEPT !.auth = tok]
           refresh == [Req("teach_mode_get", "", sessionId, teachMode, "init")
                         EXCEPT !.auth = tok]
       IN  IF kind = "ok"
           THEN /\ token' = tok
                /\ IF InitialiseDue(tok, user)
                   THEN /\ initialised' = TRUE
                        /\ inflight' = RemoveAt(inflight, i) \o <<me, refresh>>
                        /\ last' = Step("loginSettle", kind, <<"auth_me", "teach_mode_get">>)
                   ELSE /\ inflight' = Append(RemoveAt(inflight, i), me)
                        /\ last' = Step("loginSettle", kind, <<"auth_me">>)
                        /\ UNCHANGED initialised
           ELSE /\ inflight' = RemoveAt(inflight, i)
                /\ last' = Step("loginSettle", "failure", <<>>)
                /\ UNCHANGED <<token, initialised>>
    /\ UNCHANGED <<coreVars, teachVars, sessVars, audioVars, renameVars, uploadVars, user>>

\* fetchProfile after GET /auth/me, then the rest of login, which ignores
\* what fetchProfile returned and reports success.  ok: the body has a user.
ProfileSettle(i, ok) ==
    /\ i \in DOMAIN inflight
    /\ inflight[i].op = "auth_me"
    /\ LET q == inflight[i]
           tok == IF ok THEN token ELSE Null
           usr == IF ok THEN q.arg ELSE Null
       IN  /\ token' = tok
           /\ user' = usr
           /\ IF InitialiseDue(tok, usr)
              THEN /\ initialised' = TRUE
                   /\ inflight' = Append(RemoveAt(inflight, i),
                                          [Req("teach_mode_get", "", sessionId, teachMode, "init")
                                             EXCEPT !.auth = tok])
                   /\ last' = StepOn("profileSettle", "success", <<"teach_mode_get">>,
                                     <<IF ok THEN "profile" ELSE "noprofile">>)
              ELSE /\ initialised' = IF tok # Null /\ usr # Null THEN initialised ELSE FALSE
                   /\ inflight' = RemoveAt(inflight, i)
                   /\ last' = StepOn("profileSettle", "success", <<>>,
                                     <<IF ok THEN "profile" ELSE "noprofile">>)
    /\ UNCHANGED <<coreVars, teachVars, sessVars, audioVars, renameVars, uploadVars>>

\* mutant: a refresh that fails falls back to teach mode off
RefreshedTeachModeReset(r, current) == IF r.kind = "ok" THEN r.teach_mode ELSE FALSE

\* if (!res.ok) return; ... setTeachMode(Boolean(data?.teach_mode)); the
\* catch only logs
RefreshedTeachMode(r, current) == IF r.kind = "ok" THEN r.teach_mode ELSE current

\* refreshTeachMode after GET /teach_mode: a success installs
\* Boolean(data.teach_mode), anything else keeps the value; the initialise
\* effect then awaits fetchSessions()
TeachRefreshSettle(i, r) ==
    /\ i \in DOMAIN inflight
    /\ inflight[i].op = "teach_mode_get"
    /\ r \in TeachResponses
    /\ LET q == inflight[i]
           tm1 == RefreshedTeachMode(r, teachMode)
       IN  /\ teachMode' = tm1
           /\ teachStatus' = EffStatus(tm1, teachStatus)
           /\ teachTimer' = EffTimer(tm1, teachStatus, teachTimer)
           /\ refreshing' = TRUE
           /\ inflight' = Append(RemoveAt(inflight, i),
                                  [FetchSessionsReq("", q.sid, "init") EXCEPT !.auth = q.auth])
           /\ last' = Step("teachRefreshSettle", r.kind, <<"sidebar_sessions">>)
    /\ UNCHANGED <<coreVars, sessions, audioVars, authVars, renameVars, uploadVars>>

\* the initialise effect after fetchSessions(): with no session active when
\* the effect ran and a non-empty list, it selects the first listed session
ResumeInit(i) ==
    /\ i \in DOMAIN inflight
    /\ inflight[i].op = "resume"
    /\ inflight[i].cont = "init"
    /\ LET q == inflight[i]
       IN  IF q.sid = Null /\ q.arg # ""
           THEN /\ inflight' = Append(RemoveAt(inflight, i),
                                       [Req("session_messages", q.arg, q.sid, FALSE, "")
                                          EXCEPT !.auth = q.auth])
                /\ last' = Step("resumeInit", q.arg, <<"session_messages">>)
           ELSE /\ inflight' = RemoveAt(inflight, i)
                /\ last' = Step("resumeInit", "", <<>>)
    /\ UNCHANGED <<coreVars, teachVars, sessVars, audioVars, authVars, renameVars, uploadVars>>

(* ---------------------------------------------------------- audio capture *)
\* A stream is [rec, bytes, live]: rec is the state of the recorder built on
\* it ("none" when the constructor threw, "recording", "stopping" after
\* stop(), "flushed" once the final dataavailable was delivered, "inactive"
\* after onstop), bytes the size of the chunks kept, live whether its tracks
\* are still running.
Stream(rec, bytes, live) == [rec |-> rec, bytes |-> bytes, live |-> live]

\* what the browser offers: both APIs, no mediaDevices, no MediaRecorder
Capabilities == {"ok", "noMediaDevices", "noMediaRecorder"}

MicUnsupportedText == "Microphone not supported in this browser"

RecorderUnavailableText == "MediaRecorder API unavailable"

NoAudioText == "No audio captured"

\* err.message of the rejections the platform produces
PermissionDeniedText == "Permission denied"

MimeUnsupportedText == "Failed to construct 'MediaRecorder'"

FetchFailedText == "Failed to fetch"

JsonErrorText == "Unexpected end of JSON input"

\* streams whose tracks have not been stopped
LiveStreams == {k \in DOMAIN streams : streams[k].live}

\* recorders still capturing
ActiveRecorders == {k \in DOMAIN streams : streams[k].rec = "recording"}

RECURSIVE CountOp(_, _)
CountOp(q, op) ==
    IF q = <<>> THEN 0
    ELSE (IF Head(q).op = op THEN 1 ELSE 0) + CountOp(Tail(q), op)

\* startRecording without its guard: up to the await of getUserMedia
StartRecordingUnguarded(cap) ==
    /\ IF cap = "ok"
       THEN /\ audioError' = Null
            /\ inflight' = Append(inflight, Req("getUserMedia", "", sessionId, teachMode, ""))
            /\ last' = Step("startRecording", "requested", <<"getUserMedia">>)
            /\ UNCHANGED isRecording
       ELSE /\ isRecording' = FALSE
            /\ audioError' = IF cap = "noMediaDevices" THEN MicUnsupportedText
                             ELSE RecorderUnavailableText
            /\ last' = Step("startRecording", "unsupported", <<>>)
            /\ UNCHANGED inflight
    /\ UNCHANGED <<coreVars, teachVars, sessVars, isTranscribing, isPlaying,
                   recorderRef, streams, player>>
    /\ UNCHANGED <<authVars, renameVars, uploadVars>>

\* a guard that looks at the transcription flag only
StartRecordingBusyTranscribing == isTranscribing

\* the guard of startRecording
StartRecordingBusy == isRecording \/ isTranscribing

\* startRecording up to its first await
StartRecording(cap) ==
    IF StartRecordingBusy
    THEN /\ last' = Step("startRecording", "ignored", <<>>)
         /\ UNCHANGED <<coreVars, teachVars, sessVars, audioVars, authVars, renameVars, uploadVars, inflight>>
    ELSE StartRecordingUnguarded(cap)

\* startRecording resumes when getUserMedia settles: out is "denied" (the
\* promise rejects), "recorderThrows" (new MediaRecorder throws on the
\* acquired stream) or "ok"
GetUserMediaSettle(i, out) ==
    /\ i \in DOMAIN inflight
    /\ inflight[i].op = "getUserMedia"
    /\ inflight' = RemoveAt(inflight, i)
    /\ CASE out = "denied" ->
              /\ isRecording' = FALSE
              /\ audioError' = PermissionDeniedText
              /\ UNCHANGED <<streams, recorderRef>>
         [] out = "recorderThrows" ->
              /\ streams' = Append(streams, Stream("none", 0, TRUE))
              /\ isRecording' = FALSE
              /\ audioError' = MimeUnsupportedText
              /\ UNCHANGED recorderRef
         [] OTHER ->
              /\ streams' = Append(streams, Stream("recording", 0, TRUE))
              /\ recorderRef' = Len(streams) + 1
              /\ isRecording' = TRUE
              /\ UNCHANGED audioError
    /\ last' = Step("getUserMediaSettle", out, <<>>)
    /\ UNCHANGED <<coreVars, teachVars, sessVars, isTranscribing, isPlaying, player>>
    /\ UNCHANGED <<authVars, renameVars, uploadVars>>

\* stopRecording
StopRecording ==
    /\ IF recorderRef = 0
       THEN /\ last' = Step("stopRecording", "ignored", <<>>)
            /\ UNCHANGED <<streams, isRecording, recorderRef>>
       ELSE /\ streams' = [streams EXCEPT ![recorderRef].rec = "stopping"]
            /\ isRecording' = FALSE
            /\ recorderRef' = 0
            /\ last' = Step("stopRecording", "stopped", <<>>)
    /\ UNCHANGED <<coreVars, teachVars, sessVars, isTranscribing, isPlaying,
                   audioError, player, inflight>>
    /\ UNCHANGED <<authVars, renameVars, uploadVars>>

\* recorder.ondataavailable for the chunk delivered by stop()
RecorderDataAvailable(k, size) ==
    /\ k \in DOMAIN streams
    /\ streams[k].rec = "stopping"
    /\ streams' = [streams EXCEPT ![k].rec = "flushed",
                                  ![k].bytes = IF size > 0 THEN @ + size ELSE @]
    /\ last' = Step("dataavailable", IF size > 0 THEN "kept" ELSE "dropped", <<>>)
    /\ UNCHANGED <<coreVars, teachVars, sessVars, isRecording, isTranscribing,
                   isPlaying, audioError, recorderRef, player, inflight>>
    /\ UNCHANGED <<authVars, renameVars, uploadVars>>

\* an onstop that sends whatever was captured, empty or not
RecorderOnStopAlwaysSends(k) ==
    /\ k \in DOMAIN streams
    /\ streams[k].rec = "flushed"
    /\ streams' = [streams EXCEPT ![k].rec = "inactive", ![k].live = FALSE]
    /\ isRecording' = FALSE
    /\ recorderRef' = 0
    /\ isTranscribing' = TRUE
    /\ inflight' = Append(inflight, Req("stt", "", sessionId, teachMode, ""))
    /\ last' = Step("onstop", "transcribe", <<"stt">>)
    /\ UNCHANGED <<coreVars, teachVars, sessVars, isPlaying, player, audioError>>
    /\ UNCHANGED <<authVars, renameVars, uploadVars>>

\* recorder.onstop up to the await of the transcription request
RecorderOnStop(k) ==
    /\ k \in DOMAIN streams
    /\ streams[k].rec = "flushed"
    /\ streams' = [streams EXCEPT ![k].rec = "inactive", ![k].live = FALSE]
    /\ isRecording' = FALSE
    /\ recorderRef' = 0
    /\ IF streams[k].bytes = 0
       THEN /\ isTranscribing' = FALSE
            /\ audioError' = NoAudioText
            /\ last' = Step("onstop", "empty", <<>>)
            /\ UNCHANGED inflight
       ELSE /\ isTranscribing' = TRUE
            /\ inflight' = Append(inflight, Req("stt", "", sessionId, teachMode, ""))
            /\ last' = Step("onstop", "transcribe", <<"stt">>)
            /\ UNCHANGED audioError
    /\ UNCHANGED <<coreVars, teachVars, sessVars, isPlaying, player>>
    /\ UNCHANGED <<authVars, renameVars, uploadVars>>

\* the transcription service: kind, whether the body has a text field, the text
SttResp(kind, has, text) == [kind |-> kind, has |-> has, text |-> text]

SttResponses ==
    { SttResp("ok", TRUE, <<"zz">>), SttResp("ok", TRUE, <<>>),
      SttResp("ok", FALSE, <<>>), SttResp("http", FALSE, <<>>),
      SttResp("network", FALSE, <<>>), SttResp("badjson", FALSE, <<>>) }

SttErrorText(r) ==
    CASE r.kind = "http" -> "Transcription failed (500)"
      [] r.kind = "network" -> FetchFailedText
      [] OTHER -> JsonErrorText

\* mutant: a finally block that leaves the flag as it finds it
SttFinallyTranscribingKept == isTranscribing

\* finally: setIsTranscribing(false)
SttFinallyTranscribing == FALSE

\* mutant: the returned text is dropped and the buffer kept
TranscribedInputKept(r) == input

\* setInput(data.text ?? "")
TranscribedInput(r) == IF r.has THEN r.text ELSE <<>>

\* what the service returned, for the record of the step: whether the body
\* has a text field, then the text
SttReturned(r) == <<IF r.has THEN "text" ELSE "absent">> \o r.text

\* recorder.onstop resumes when the transcription request settles
SttSettle(i, r) ==
    /\ i \in DOMAIN inflight
    /\ inflight[i].op = "stt"
    /\ inflight' = RemoveAt(inflight, i)
    /\ IF r.kind = "ok"
       THEN /\ input' = TranscribedInput(r)
            /\ audioError' = Null
       ELSE /\ audioError' = SttErrorText(r)
            /\ UNCHANGED input
    /\ isTranscribing' = SttFinallyTranscribing
    /\ last' = StepOn("sttSettle", r.kind, <<>>, SttReturned(r))
    /\ UNCHANGED <<messages, sessionId, isSending, showSuggestions, commandQuery,
                   teachVars, sessVars, isRecording, isPlaying, recorderRef,
                   streams, player>>
    /\ UNCHANGED <<authVars, renameVars, uploadVars>>

(* --------------------------------------------------------------- playback *)
\* mutant: the last entry of the transcript, whoever wrote it
LatestEntry(msgs, index) == index

\* latestAssistantMessage: index of the last "student" entry, 0 when none
RECURSIVE LatestAssistant(_, _)
LatestAssistant(msgs, index) ==
    IF index = 0 THEN 0
    ELSE IF msgs[index].role = "student" THEN index
    ELSE LatestAssistant(msgs, index - 1)

LatestAssistantMessage == LatestAssistant(messages, Len(messages))

HasAssistantReply == LatestAssistantMessage # 0

NoAssistantReplyText == "No assistant reply available"

SpeechFailedText == "Speech playback failed (500)"

UnablePlayText == "Unable to play audio"

PlayRejectedText == "The play() request was interrupted"

\* mutant: the element is dropped and its object URL is never revoked
LeakedPlayer == [stage |-> "none", url |-> TRUE]

\* no Audio element and no object URL: URL.revokeObjectURL(audioUrl) has run
NoPlayer == [stage |-> "none", url |-> FALSE]

\* playLatestReply without its guard: up to the await of the synthesis request
PlayLatestReplyUnguarded ==
    /\ IF ~HasAssistantReply
       THEN /\ audioError' = NoAssistantReplyText
            /\ last' = Step("playLatestReply", "noReply", <<>>)
            /\ UNCHANGED <<isPlaying, inflight>>
       ELSE /\ audioError' = Null
            /\ isPlaying' = TRUE
            /\ inflight' = Append(inflight,
                                  Req("tts", messages[LatestAssistantMessage].text,
                                      sessionId, teachMode, ""))
            /\ last' = Step("playLatestReply", "requested", <<"tts">>)
    /\ UNCHANGED <<coreVars, teachVars, sessVars, isRecording, isTranscribing,
                   recorderRef, streams, player>>
    /\ UNCHANGED <<authVars, renameVars, uploadVars>>

\* the guard of playLatestReply
PlayLatestReplyBusy == isPlaying \/ isSending \/ isTranscribing

\* playLatestReply up to its first await
PlayLatestReply ==
    IF PlayLatestReplyBusy
    THEN /\ last' = Step("playLatestReply", "ignored", <<>>)
         /\ UNCHANGED <<coreVars, teachVars, sessVars, audioVars, authVars, renameVars, uploadVars, inflight>>
    ELSE PlayLatestReplyUnguarded

\* playLatestReply resumes when the synthesis request settles; on success it
\* creates the object URL and the Audio element and awaits audio.play()
TtsSettle(i, kind) ==
    /\ i \in DOMAIN inflight
    /\ inflight[i].op = "tts"
    /\ IF kind = "ok"
       THEN /\ player' = [stage |-> "starting", url |-> TRUE]
            /\ inflight' = Append(RemoveAt(inflight, i),
                                  Req("audio_play", "", sessionId, teachMode, ""))
            /\ UNCHANGED <<isPlaying, audioError>>
       ELSE /\ isPlaying' = FALSE
            /\ audioError' = IF kind = "http" THEN SpeechFailedText ELSE FetchFailedText
            /\ inflight' = RemoveAt(inflight, i)
            /\ UNCHANGED player
    /\ last' = Step("ttsSettle", kind, <<>>)
    /\ UNCHANGED <<coreVars, teachVars, sessVars, isRecording, isTranscribing,
                   recorderRef, streams>>
    /\ UNCHANGED <<authVars, renameVars, uploadVars>>

\* playLatestReply resumes when audio.play() settles
PlaySettle(i, resolved) ==
    /\ i \in DOMAIN inflight
    /\ inflight[i].op = "audio_play"
    /\ inflight' = RemoveAt(inflight, i)
    /\ IF resolved
       THEN /\ player' = [player EXCEPT !.stage = "playing"]
            /\ UNCHANGED <<isPlaying, audioError>>
       ELSE /\ isPlaying' = FALSE
            /\ player' = NoPlayer
            /\ audioError' = PlayRejectedText
    /\ last' = Step("playSettle", IF resolved THEN "playing" ELSE "rejected", <<>>)
    /\ UNCHANGED <<coreVars, teachVars, sessVars, isRecording, isTranscribing,
                   recorderRef, streams>>
    /\ UNCHANGED <<authVars, renameVars, uploadVars>>

\* audio.onended
AudioOnEnded ==
    /\ player.stage = "playing"
    /\ isPlaying' = FALSE
    /\ player' = NoPlayer
    /\ last' = Step("onended", "", <<>>)
    /\ UNCHANGED <<coreVars, teachVars, sessVars, isRecording, isTranscribing,
                   audioError, recorderRef, streams, inflight>>
    /\ UNCHANGED <<authVars, renameVars, uploadVars>>

\* audio.onerror
AudioOnError ==
    /\ player.stage = "playing"
    /\ isPlaying' = FALSE
    /\ player' = NoPlayer
    /\ audioError' = UnablePlayText
    /\ last' = Step("onerror", "", <<>>)
    /\ UNCHANGED <<coreVars, teachVars, sessVars, isRecording, isTranscribing,
                   recorderRef, streams, inflight>>
    /\ UNCHANGED <<authVars, renameVars, uploadVars>>

(* ------------------------------------------------------------- audio spec *)
\* the microphone button while it shows "start"
MicStart ==
    /\ Quiescent
    /\ ~isRecording /\ ~isTranscribing
    /\ Len(inflight) < MaxInflight
    /\ Len(streams) + CountOp(inflight, "getUserMedia") < MaxStreams
    /\ \E cap \in Capabilities : StartRecording(cap)

\* startRecording called while its guard holds
MicStartBusy ==
    /\ Quiescent
    /\ (isRecording \/ isTranscribing)
    /\ Len(inflight) < MaxInflight
    /\ StartRecording("ok")

\* the microphone button while it shows "stop"
MicStop ==
    /\ Quiescent
    /\ isRecording /\ ~isTranscribing
    /\ StopRecording

MicGranted == \E i \in DOMAIN inflight, out \in {"denied", "recorderThrows", "ok"} :
    GetUserMediaSettle(i, out)

RecorderFlush == \E k \in DOMAIN streams, size \in 0..MaxChunk :
    RecorderDataAvailable(k, size)

RecorderStopped == \E k \in DOMAIN streams :
    /\ Len(inflight) < MaxInflight
    /\ RecorderOnStop(k)

SttReply == \E i \in DOMAIN inflight, r \in SttResponses : SttSettle(i, r)

\* the play button (disabled without an assistant reply)
PlayClick ==
    /\ Quiescent
    /\ ~PlayLatestReplyBusy /\ HasAssistantReply
    /\ Len(inflight) < MaxInflight
    /\ PlayLatestReply

\* playLatestReply called while the button is disabled
PlayCall ==
    /\ Quiescent
    /\ (PlayLatestReplyBusy \/ ~HasAssistantReply)
    /\ PlayLatestReply

TtsReply == \E i \in DOMAIN inflight, kind \in {"ok", "http", "network"} :
    TtsSettle(i, kind)

PlayReply == \E i \in DOMAIN inflight, resolved \in BOOLEAN : PlaySettle(i, resolved)

\* a stored session with an assistant reply is opened from the sidebar
AudioSelect ==
    /\ Quiescent
    /\ sessionId = Null
    /\ inflight = <<>>
    /\ HandleSelectSession("s1")

AudioSelectReply ==
    \E i \in DOMAIN inflight :
      \E h \in {<<Stored("user", "q1"), Stored("assistant", "a1")>>, TwoReplyHistory} :
        SelectSettle(i, HistResp("ok", h))

NextAudio ==
    \/ MicStart \/ MicStartBusy \/ MicStop \/ MicGranted \/ RecorderFlush
    \/ RecorderStopped \/ SttReply \/ PlayClick \/ PlayCall \/ TtsReply
    \/ PlayReply \/ AudioOnEnded \/ AudioOnError \/ AudioSelect \/ AudioSelectReply

SpecAudio == Init /\ [][NextAudio]_vars

\* the audio specification with the scheduling the playback path relies on:
\* the synthesis request settles, audio.play() settles, and an element that
\* is playing comes to its end
SpecAudioFair ==
    /\ SpecAudio
    /\ WF_vars(TtsReply)
    /\ WF_vars(PlayReply)
    /\ WF_vars(AudioOnEnded)

(* ----------------------------------------------------------- session spec *)
\* the sessions the sidebar lists
Listed == {sessions[k] : k \in DOMAIN sessions}

\* the sidebar's refresh button
SessRefresh ==
    /\ Quiescent
    /\ Len(inflight) < MaxInflight
    /\ HandleRefresh

SessListReply == \E i \in DOMAIN inflight, r \in ListResponses :
    Quiescent /\ FetchSessionsSettle(i, r)

\* a click on a listed session
SessSelect == \E id \in Listed :
    /\ Quiescent
    /\ Room(1)
    /\ HandleSelectSession(id)

SessSelectReply == \E i \in DOMAIN inflight, r \in HistoryResponses :
    Quiescent /\ SelectSettle(i, r)

\* the delete button of a listed session, the confirm dialog accepted
SessDelete == \E id \in Listed :
    /\ Quiescent
    /\ Room(1)
    /\ HandleDeleteSession(id)

SessDeleteReply == \E i \in DOMAIN inflight, kind \in {"ok", "http", "network"} :
    Quiescent /\ DeleteSettle(i, kind)

\* handleDeleteSession goes on as soon as the refresh it awaited has returned
SessDeleteResume == \E i \in DOMAIN inflight : ResumeDelete(i)

SessNewChat ==
    /\ Quiescent
    /\ sessionId # Null
    /\ HandleNewChat

NextSession ==
    \/ SessRefresh \/ SessListReply \/ SessSelect \/ SessSelectReply
    \/ SessDelete \/ SessDeleteReply \/ SessDeleteResume \/ SessNewChat

SpecSession == Init /\ [][NextSession]_vars

(* ------------------------------------------------------------ rename spec *)
\* what is typed into the title field
Titles == {<<>>, <<SP>>, <<"zz">>, <<SP, "zz", SP>>, <<"zz", SP, "zz">>}

RenRefresh ==
    /\ Quiescent
    /\ Len(inflight) < MaxInflight
    /\ HandleRefresh

RenListReply == \E i \in DOMAIN inflight, r \in ListResponses :
    Quiescent /\ FetchSessionsSettle(i, r)

\* the rename button of a listed session; the field starts with its title
RenStart == \E id \in Listed :
    /\ Quiescent
    /\ editingSession # id
    /\ HandleStartRename(id, <<"zz">>)

\* the title field is shown for the session being edited
RenType == \E value \in Titles :
    /\ Quiescent
    /\ editingSession \in Listed
    /\ value # newTitle
    /\ SetNewTitle(value)

RenCancel ==
    /\ Quiescent
    /\ editingSession \in Listed
    /\ HandleRenameCancel

\* the rename form of the session being edited is submitted
RenSubmit ==
    /\ Quiescent
    /\ editingSession \in Listed
    /\ Room(1)
    /\ HandleRenameSession(editingSession)

RenReply == \E i \in DOMAIN inflight, kind \in {"ok", "http", "network"} :
    Quiescent /\ RenameSettle(i, kind)

\* handleRenameSession goes on as soon as the refresh it awaited has returned
RenResume == \E i \in DOMAIN inflight : ResumeRename(i)

NextRename ==
    \/ RenRefresh \/ RenListReply \/ RenStart \/ RenType \/ RenCancel
    \/ RenSubmit \/ RenReply \/ RenResume

SpecRename == Init /\ [][NextRename]_vars

(* -------------------------------------------------------------- auth spec *)
\* the server side of two accounts: each owns one stored session, and a
\* request is answered for the account its credential belongs to
AccountOf(tok) == IF tok = TokenOf("A") THEN "A" ELSE IF tok = TokenOf("B") THEN "B" ELSE Null

OwnedBy(account) == IF account = "A" THEN {"s1"} ELSE IF account = "B" THEN {"s2"} ELSE {}

StoredHistory(id) ==
    IF id = "s1" THEN <<Stored("user", "q1"), Stored("assistant", "a1")>>
    ELSE <<Stored("system", "n1"), Stored("assistant", "a2")>>

\* GET /sidebar_sessions as the server answers the credential it is sent
ServerList(tok) ==
    IF AccountOf(tok) = Null THEN {ListResp("http", <<>>), ListResp("network", <<>>)}
    ELSE {ListResp("network", <<>>),
          ListResp("ok", IF AccountOf(tok) = "A" THEN <<"s1">> ELSE <<"s2">>)}

\* GET /session_messages: the history of a session of the caller, a refusal
\* for any other
ServerHistory(tok, id) ==
    IF id \in OwnedBy(AccountOf(tok))
    THEN {HistResp("network", <<>>), HistResp("ok", StoredHistory(id))}
    ELSE {HistResp("network", <<>>), HistResp("http", <<>>)}

AuthRefresh ==
    /\ Quiescent
    /\ IsAuthenticated
    /\ Len(inflight) < MaxInflight
    /\ HandleRefresh

AuthListReply == \E i \in DOMAIN inflight : \E r \in ServerList(inflight[i].auth) :
    Quiescent /\ FetchSessionsSettle(i, r)

AuthSelect == \E id \in Listed :
    /\ Quiescent
    /\ IsAuthenticated
    /\ Len(inflight) < MaxInflight
    /\ HandleSelectSession(id)

\* bound: a failing answer arrives only while the transcript has room
AuthSelectReply ==
    \E i \in DOMAIN inflight : \E r \in ServerHistory(inflight[i].auth, inflight[i].arg) :
        /\ Quiescent
        /\ r.kind = "ok" \/ Len(messages) < MaxMsgs
        /\ SelectSettle(i, r)

AuthLogout ==
    /\ Quiescent
    /\ IsAuthenticated
    /\ Logout

\* the login form is shown while the client is not authenticated
AuthLogin == \E account \in Accounts :
    /\ Quiescent
    /\ ~IsAuthenticated
    /\ Len(inflight) < MaxInflight
    /\ Login(account)

AuthLoginReply == \E i \in DOMAIN inflight, kind \in {"ok", "notoken", "http", "network"} :
    Quiescent /\ LoginSettle(i, kind)

AuthProfileReply == \E i \in DOMAIN inflight, ok \in BOOLEAN :
    Quiescent /\ ProfileSettle(i, ok)

AuthTeachReply == \E i \in DOMAIN inflight, r \in TeachResponses :
    Quiescent /\ TeachRefreshSettle(i, r)

\* the initialise effect goes on as soon as the refresh it awaited returned
AuthResume == \E i \in DOMAIN inflight : ResumeInit(i)

NextAuth ==
    \/ AuthRefresh \/ AuthListReply \/ AuthSelect \/ AuthSelectReply
    \/ AuthLogout \/ AuthLogin \/ AuthLoginReply \/ AuthProfileReply
    \/ AuthTeachReply \/ AuthResume

SpecAuth == Init /\ [][NextAuth]_vars

(* ------------------------------------------------- command interpreter spec *)
SeqsUpTo(S, n) == UNION {[1..k -> S] : k \in 0..n}

\* first words typed after the slash: every command name, two of them in
\* another case, and a word that is no command
CmdWords == CommandNames \cup {"Topic", "SESSION", "zz"}

ArgAtoms == {SP, "NEW", "zz"}

\* typed commands: "/" word tail, "/" blank word, the bare slash, blank input
CmdInputs ==
    { <<Slash, w>> \o tail : w \in CmdWords, tail \in SeqsUpTo(ArgAtoms, MaxArgLen) }
    \cup { <<Slash, SP, w>> : w \in CmdWords }
    \cup { <<Slash>>, <<Slash, SP>>, <<>>, <<SP>>, <<SP, Slash, "help", SP>> }

\* a form whose controls stay enabled while a send is outstanding
SubmitTypedAlways(raw) == ProcessInput(raw)

\* Enter in the textarea or the Send button with the buffer holding raw; both
\* are disabled while a chat send is outstanding
SubmitTyped(raw) == ~isSending /\ ProcessInput(raw)

CmdSubmit ==
    \E raw \in CmdInputs : Quiescent /\ RoomIn(MaxCmdMsgs, 1) /\ SubmitTyped(raw)

CmdReply ==
    \E i \in DOMAIN inflight, r \in CmdResponses : Quiescent /\ CmdSettle(i, r)

CmdNewChat == Quiescent /\ HandleNewChat

\* one session selected and loaded, so that /summary has a session to name
CmdSelect ==
    /\ Quiescent /\ RoomIn(MaxCmdMsgs, 1) /\ sessionId = Null
    /\ HandleSelectSession("s1")

CmdSelectReply ==
    \E i \in DOMAIN inflight :
        Quiescent /\ SelectSettle(i, HistResp("ok", <<>>))

NextCmd == CmdSubmit \/ CmdReply \/ CmdNewChat \/ CmdSelect \/ CmdSelectReply

SpecCmd == Init /\ [][NextCmd]_vars

(* ------------------------------------------------------- teach mode spec *)
\* the prompts typed in a teaching turn
TeachPrompts == {<<"zz">>, <<SP, "zz", SP>>}

\* the teach mode switch
TeachToggle ==
    /\ Quiescent
    /\ Room(1)
    /\ HandleToggleTeachMode

TeachToggleReply == \E i \in DOMAIN inflight, r \in TeachResponses : ToggleSettle(i, r)

\* a prompt is submitted: its echo and its reply must fit the transcript
TeachSubmit == \E raw \in TeachPrompts :
    /\ Quiescent
    /\ Room(2)
    /\ SubmitTyped(raw)

TeachChatReply == \E i \in DOMAIN inflight, r \in ChatResponses : ChatSettle(i, r)

\* the refresh that a successful turn starts comes back
TeachListReply == \E i \in DOMAIN inflight, r \in ListResponses : FetchSessionsSettle(i, r)

\* the reset timer runs out; a ready continuation would run before it
TeachTimeout ==
    /\ Quiescent
    /\ TeachTimerFire

TeachNewChat ==
    /\ Quiescent
    /\ Len(messages) > 1
    /\ HandleNewChat

NextTeach ==
    \/ TeachToggle \/ TeachToggleReply \/ TeachSubmit \/ TeachChatReply
    \/ TeachListReply \/ TeachTimeout \/ TeachNewChat

SpecTeach == Init /\ [][NextTeach]_vars

(* ------------------------------------- teach mode across sign-out and sign-in *)
\* the chat screen is rendered only while the client is authenticated
OffToggle ==
    /\ Quiescent
    /\ IsAuthenticated
    /\ Room(1)
    /\ HandleToggleTeachMode

OffSubmit == \E raw \in TeachPrompts :
    /\ Quiescent
    /\ IsAuthenticated
    /\ Room(2)
    /\ SubmitTyped(raw)

OffToggleReply ==
    \E i \in DOMAIN inflight, r \in TeachResponses : Quiescent /\ ToggleSettle(i, r)

OffChatReply ==
    \E i \in DOMAIN inflight, r \in ChatResponses : Quiescent /\ ChatSettle(i, r)

\* the account has no stored session, or the list cannot be fetched
OffListReply ==
    \E i \in DOMAIN inflight, r \in {ListResp("network", <<>>), ListResp("ok", <<>>)} :
        Quiescent /\ FetchSessionsSettle(i, r)

OffLogout ==
    /\ Quiescent
    /\ IsAuthenticated
    /\ Logout

OffLogin ==
    /\ Quiescent
    /\ ~IsAuthenticated
    /\ Len(inflight) < MaxInflight
    /\ Login("A")

OffLoginReply == \E i \in DOMAIN inflight : Quiescent /\ LoginSettle(i, "ok")

OffProfileReply == \E i \in DOMAIN inflight : Quiescent /\ ProfileSettle(i, TRUE)

\* the refresh of the initialise effect comes back
OffRefreshReply ==
    \E i \in DOMAIN inflight, r \in TeachResponses : Quiescent /\ TeachRefreshSettle(i, r)

OffResume == \E i \in DOMAIN inflight : ResumeInit(i)

NextTeachOff ==
    \/ OffToggle \/ OffToggleReply \/ OffSubmit \/ OffChatReply \/ OffListReply
    \/ TeachTimeout \/ OffLogout \/ OffLogin \/ OffLoginReply \/ OffProfileReply
    \/ OffRefreshReply \/ OffResume

SpecTeachOff == Init /\ [][NextTeachOff]_vars

(* ------------------------------------------------- typing and submitting *)
\* what the operator types: blank text, prompts, commands, and text whose
\* slash shows only after trimming or is not in front
SubInputs ==
    { <<>>, <<SP>>, <<"zz">>, <<SP, "zz", SP>>, <<"zz", Slash>>,
      <<Slash, "help">>, <<SP, Slash, "help">>, <<Slash, "topic", SP, "zz">>,
      <<Slash, "zz">>, <<Slash, "search">> }

\* the textarea's onChange; the textarea is disabled while a send is outstanding
SubType == \E value \in SubInputs :
    /\ Quiescent
    /\ ~isSending
    /\ value # input
    /\ HandleInputChange(value)

\* the form is submitted with what the buffer holds
SubSubmit ==
    /\ Quiescent
    /\ Room(2)
    /\ SubmitTyped(input)

\* Escape or Tab pressed in the textarea
SubKey == \E key \in {"Escape", "Tab"} :
    /\ Quiescent
    /\ ~isSending
    /\ TextareaKeyDown(key)

\* the lists the file input delivers: none, one, two and six files
FileLists ==
    { <<>>, <<"a.pdf">>, <<"a.pdf", "b.pdf">>,
      <<"a.pdf", "b.pdf", "c.pdf", "d.pdf", "e.pdf", "f.pdf">> }

UploadResponses ==
    { UpResp("network", "", FALSE, <<>>, FALSE, <<>>),
      UpResp("badshape", "", FALSE, <<>>, FALSE, <<>>),
      UpResp("http", "", FALSE, <<>>, FALSE, <<>>),
      UpResp("http", "boom", FALSE, <<>>, FALSE, <<>>),
      UpResp("ok", "", FALSE, <<>>, FALSE, <<>>),
      UpResp("ok", "", TRUE, <<"a.pdf">>, TRUE, <<>>),
      UpResp("ok", "", TRUE, <<"a.pdf", "">>, FALSE, <<>>),
      UpResp("ok", "", TRUE, <<"a.pdf">>, TRUE, <<[filename |-> "b.pdf", error |-> "bad"]>>),
      UpResp("ok", "", TRUE, <<>>, TRUE, <<[filename |-> "b.pdf", error |-> ""], [filename |-> "", error |-> "bad"]>>) }

\* a choice made in the file dialog; the Upload button that opens it is
\* disabled while uploading or sending
SubUpload == \E files \in FileLists :
    /\ Quiescent
    /\ ~isUploading
    /\ ~isSending
    /\ Room(2)
    /\ HandleFileInputChange(files)

SubUploadReply ==
    \E i \in DOMAIN inflight, r \in UploadResponses : Quiescent /\ UploadSettle(i, r)

SubChatReply ==
    \E i \in DOMAIN inflight, r \in ChatResponses : Quiescent /\ ChatSettle(i, r)

SubCmdReply ==
    \E i \in DOMAIN inflight, r \in CmdResponses : Quiescent /\ CmdSettle(i, r)

SubListReply ==
    \E i \in DOMAIN inflight, r \in ListResponses : Quiescent /\ FetchSessionsSettle(i, r)

SubNewChat ==
    /\ Quiescent
    /\ HandleNewChat

NextSubmit ==
    \/ SubType \/ SubKey \/ SubSubmit \/ SubChatReply \/ SubCmdReply
    \/ SubListReply \/ SubNewChat \/ SubUpload \/ SubUploadReply

SpecSubmit == Init /\ [][NextSubmit]_vars

(* ------------------------------------------------------------- chat spec *)
\* a prompt is submitted: its echo and its reply must fit the transcript
ChatSubmit == \E raw \in TeachPrompts :
    /\ Quiescent
    /\ Room(2)
    /\ SubmitTyped(raw)

ChatReply == \E i \in DOMAIN inflight, r \in ChatResponses : ChatSettle(i, r)

ChatListReply == \E i \in DOMAIN inflight, r \in ListResponses : FetchSessionsSettle(i, r)

ChatNewChat ==
    /\ Quiescent
    /\ Len(messages) > 1
    /\ HandleNewChat

\* a stored session is opened from the sidebar, so that a send can start bound
ChatSelect ==
    /\ Quiescent
    /\ Room(1)
    /\ sessionId # "s2"
    /\ HandleSelectSession("s2")

ChatSelectReply == \E i \in DOMAIN inflight :
    SelectSettle(i, HistResp("ok", <<>>))

NextChat ==
    \/ ChatSubmit \/ ChatReply \/ ChatListReply \/ ChatNewChat
    \/ ChatSelect \/ ChatSelectReply

SpecChat == Init /\ [][NextChat]_vars

(* ------------------------------------------------------ voice and chat spec *)
\* the composer with all its controls: the send form, the microphone button
\* and the play button, and what comes back for each
NextVoice ==
    \/ ChatSubmit \/ ChatReply \/ ChatListReply
    \/ MicStart \/ MicGranted \/ MicStop \/ RecorderFlush \/ RecorderStopped
    \/ SttReply \/ PlayClick \/ TtsReply \/ PlayReply \/ AudioOnEnded

SpecVoice == Init /\ [][NextVoice]_vars

(* ---------------------------------------------------------- new chat spec *)
\* the New chat button of the sidebar, pressed with a command typed in the
\* buffer or not, a session adopted or not, teach mode on or off, and the
\* player idle, loading or playing
DeskType ==
    /\ Quiescent
    /\ ~isSending
    /\ input = <<>>
    /\ HandleInputChange(<<Slash, "help">>)

DeskNewChat ==
    /\ Quiescent
    /\ Len(messages) > 1 \/ input # <<>>
    /\ HandleNewChat

NextDesk ==
    \/ ChatSubmit \/ ChatReply \/ ChatListReply \/ TeachToggle \/ TeachToggleReply
    \/ PlayClick \/ TtsReply \/ PlayReply \/ AudioOnEnded
    \/ DeskType \/ DeskNewChat

SpecDesk == Init /\ [][NextDesk]_vars

(* ------------------------------------------------------- repeated sends *)
\* room in the transcript for two turns, so that a submit gesture made while
\* a send is outstanding is held back by nothing but the disabled controls
MaxSendMsgs == MaxMsgs + 2

SendSubmit == \E raw \in TeachPrompts :
    /\ Quiescent
    /\ RoomIn(MaxSendMsgs, 2)
    /\ SubmitTyped(raw)

SendReply ==
    \E i \in DOMAIN inflight, r \in ChatResponses : Quiescent /\ ChatSettle(i, r)

SendListReply ==
    \E i \in DOMAIN inflight, r \in ListResponses : Quiescent /\ FetchSessionsSettle(i, r)

SendNewChat ==
    /\ Quiescent
    /\ Len(messages) > 1
    /\ HandleNewChat

NextSend == SendSubmit \/ SendReply \/ SendListReply \/ SendNewChat

SpecSend == Init /\ [][NextSend]_vars

(* --------------------------------------------- selecting while sending *)
\* the sidebar stays live while a send is outstanding: a stored session is
\* opened, with room in the transcript for what either call appends
SwitchSelect ==
    /\ Quiescent
    /\ RoomIn(MaxSendMsgs, 1)
    /\ sessionId # "s2"
    /\ HandleSelectSession("s2")

SwitchSelectReply ==
    \E i \in DOMAIN inflight :
      \E r \in {HistResp("network", <<>>), HistResp("ok", <<>>),
                 HistResp("ok", <<Stored("user", "q1"), Stored("assistant", "a1")>>)} :
        Quiescent /\ SelectSettle(i, r)

NextSwitch ==
    \/ SendSubmit \/ SendReply \/ SendListReply \/ SendNewChat
    \/ SwitchSelect \/ SwitchSelectReply

SpecSwitch == Init /\ [][NextSwitch]_vars

(* ------------------------------------------------ claims: the interpreter *)
\* the step just taken (into the primed state) ran handleCommand on a command
\* with a non-empty body; rawCommand is the trimmed text processInput passed
RanCommand == last'.op = "processInput" /\ last'.out = "command"

RawCommand == Trim(last'.arg)

NewMessages == SubSeq(messages', Len(messages) + 1, Len(messages'))

\* C1: for every slash command whose lower-cased first token is no command
\* name, handleCommand appends exactly one system message
\* 'Unknown command "/<token>". Try /help.' and issues no remote call.
C1_UnknownCommand ==
    [][ (RanCommand /\ Stripped(RawCommand) # <<>>
            /\ Normalized(RawCommand) \notin CommandNames)
        => /\ messages' = Append(messages,
                 Msg("system", "Unknown command " \o Q \o "/"
                               \o Normalized(RawCommand) \o Q \o ". Try /help."))
           /\ last'.calls = <<>>
           /\ inflight' = inflight ]_vars

\* an unknown word in upper case joined to another atom was typed and answered
C1_Witness ==
    /\ last.op = "processInput"
    /\ last.arg = <<Slash, "Topic", "NEW">>
    /\ last.calls = <<>>
    /\ inflight = <<>>
    /\ messages[Len(messages)] = Msg("system", "Unknown command \"/topicnew\". Try /help.")

\* the commands C2 names, and what "argument missing" means for each
NeedsArgument(n) == n \in {"topic", "search_topic", "search", "vectorsearch",
                           "documentvectorsearch", "session"}

ArgumentMissing(rawCommand) ==
    IF Normalized(rawCommand) = "session" THEN SubCommand(rawCommand) # "new"
    ELSE ArgText(rawCommand) = ""

\* C2: a recognized command that requires an argument, invoked with the
\* argument missing or blank, shows "Usage: " followed by that command's usage
\* string from the catalog and issues no remote call.
C2_MissingArgument ==
    [][ (RanCommand /\ Stripped(RawCommand) # <<>>
            /\ NeedsArgument(Normalized(RawCommand)) /\ ArgumentMissing(RawCommand))
        => /\ messages' = Append(messages,
                 Msg("system", "Usage: " \o UsageOf(Normalized(RawCommand))))
           /\ last'.calls = <<>>
           /\ inflight' = inflight ]_vars

\* /vectorsearch followed by blanks only was typed and answered with its usage
C2_Witness ==
    /\ last.op = "processInput"
    /\ last.arg = <<Slash, "vectorsearch", SP, SP>>
    /\ last.calls = <<>>
    /\ messages[Len(messages)] = Msg("system", "Usage: /vectorsearch <query>")

\* C3 as claimed: a command with a non-empty body first appends the raw
\* command text as an operator (teacher) message, before any feedback; an
\* empty body appends only the /help prompt.
C3_EchoFirst ==
    [][ RanCommand
        => IF Stripped(RawCommand) # <<>>
           THEN /\ Len(messages') > Len(messages)
                /\ messages'[Len(messages) + 1] = Msg("teacher", Str(RawCommand))
           ELSE messages' = Append(messages, Msg("system", HelpHintText)) ]_vars

OnlySystem(msgs) == \A k \in DOMAIN msgs : msgs[k].role = "system"

\* C3 as amended: no step of handleCommand appends an operator message.  The
\* synchronous part keeps the transcript and appends system messages only (the
\* /help prompt alone when the body is empty), and the continuation after the
\* remote call leaves system messages only behind the entries it keeps.
C3_NoEcho ==
    [][ /\ RanCommand
           => /\ Len(messages') >= Len(messages)
              /\ SubSeq(messages', 1, Len(messages)) = messages
              /\ OnlySystem(NewMessages)
              /\ Stripped(RawCommand) = <<>>
                   => messages' = Append(messages, Msg("system", HelpHintText))
        /\ (last'.op \in {"cmdSettle:" \o n : n \in CmdOps})
           => \/ /\ Len(messages') = Len(messages) + 1
                 /\ SubSeq(messages', 1, Len(messages)) = messages
                 /\ OnlySystem(NewMessages)
              \/ /\ last'.op = "cmdSettle:session"
                 /\ Len(messages') = 2
                 /\ OnlySystem(messages') ]_vars

\* /help was typed: the transcript is the welcome and the help text, no echo
C3_Witness ==
    /\ last.op = "processInput"
    /\ last.arg = <<Slash, "help">>
    /\ messages = <<Msg("system", WelcomeText), Msg("system", HelpText)>>

\* the step settles the create call of "/session new" with a success
CreateSucceeds == last'.op = "cmdSettle:session" /\ last'.out = "ok"

\* C18 as claimed: "/session new" makes one remote create call and, once it
\* has succeeded, issues a session-list refresh.
C18_CreateThenRefresh ==
    [][ /\ (RanCommand /\ Stripped(RawCommand) # <<>>
               /\ Normalized(RawCommand) = "session" /\ SubCommand(RawCommand) = "new")
           => last'.calls = <<"session">>
        /\ CreateSucceeds
           => /\ last'.calls = <<"sidebar_sessions">>
              /\ CountOp(inflight', "sidebar_sessions")
                   = CountOp(inflight, "sidebar_sessions") + 1 ]_vars

\* a recognized command other than /help typed with valid input: a non-blank
\* argument where one is required, the sub-command "new" for /session, an
\* active session for /summary
ValidCall(rawCommand) ==
    LET n == Normalized(rawCommand)
    IN  \/ n \in QueryCommands /\ ArgText(rawCommand) # ""
        \/ n = "session" /\ SubCommand(rawCommand) = "new"
        \/ n = "summary" /\ sessionId # Null
        \/ n \in BareCommands

\* the catalog written out line by line: usage, separator, description
RECURSIVE CatalogListing(_)
CatalogListing(k) ==
    IF k = 0 THEN ""
    ELSE CatalogListing(k - 1) \o (IF k > 1 THEN "\n" ELSE "")
         \o COMMANDS[k].usage \o " - " \o COMMANDS[k].description

\* C19: a recognized command with valid input issues exactly one remote call,
\* to that command's operation, and appends nothing until the call settles;
\* the continuation of a command call issues no further call; /help issues no
\* call and appends one system message listing usage and description of every
\* catalog entry.
C19_OneCallPerCommand ==
    [][ /\ (RanCommand /\ Stripped(RawCommand) # <<>> /\ ValidCall(RawCommand))
           => /\ last'.calls = <<Normalized(RawCommand)>>
              /\ Len(inflight') = Len(inflight) + 1
              /\ SubSeq(inflight', 1, Len(inflight)) = inflight
              /\ inflight'[Len(inflight')].op = Normalized(RawCommand)
              /\ messages' = messages
        /\ (RanCommand /\ Stripped(RawCommand) # <<>> /\ Normalized(RawCommand) = "help")
           => /\ last'.calls = <<>>
              /\ inflight' = inflight
              /\ messages' = Append(messages, Msg("system", CatalogListing(Len(COMMANDS))))
        /\ (last'.op \in {"cmdSettle:" \o n : n \in CmdOps})
           => /\ last'.calls = <<>>
              /\ Len(inflight') = Len(inflight) - 1 ]_vars

\* "/search zz" was typed and its one call, carrying the query, is outstanding
C19_Witness ==
    /\ last.op = "processInput"
    /\ last.arg = <<Slash, "search", SP, "zz">>
    /\ last.calls = <<"search">>
    /\ Len(inflight) = 1
    /\ inflight[1].op = "search"
    /\ inflight[1].arg = "zz"

\* the step settles a command call with a transport failure, a non-success
\* status or an unparsable body
CmdFails ==
    /\ last'.op \in {"cmdSettle:" \o n : n \in CmdOps}
    /\ last'.out \in {"network", "http", "badjson"}

\* C20: a command call that fails is answered with exactly one system message
\* appended behind the transcript as it stands; the active-session pointer, the
\* Sending flag and every earlier entry are unchanged, and the handler is done
\* (its call is no longer outstanding and nothing else is issued).
C20_CommandFailureContained ==
    [][ CmdFails
        => /\ Len(messages') = Len(messages) + 1
           /\ SubSeq(messages', 1, Len(messages)) = messages
           /\ messages'[Len(messages')].role = "system"
           /\ sessionId' = sessionId
           /\ isSending' = isSending
           /\ last'.calls = <<>>
           /\ Len(inflight') = Len(inflight) - 1 ]_vars

\* "/session new" came back with an unparsable body: the welcome is still
\* there, followed by the one failure message, and no session is active
C20_Witness ==
    /\ last.op = "cmdSettle:session"
    /\ last.out = "badjson"
    /\ sessionId = Null
    /\ ~isSending
    /\ messages = <<Msg("system", WelcomeText),
                    Msg("system", "Could not start a new session.")>>

(* ----------------------------------------------------------------- audio *)
\* C4 as claimed: at most one capture session exists at any time; no state
\* holds two media streams whose tracks are running.
C4_OneCaptureSession == Cardinality(LiveStreams) <= 1

\* C5 as claimed: Recording, Transcribing and Playing are pairwise exclusive
\* in every reachable state.
C5_MutuallyExclusive ==
    /\ ~(isRecording /\ isPlaying)
    /\ ~(isRecording /\ isTranscribing)
    /\ ~(isTranscribing /\ isPlaying)

\* C6: startRecording called while isRecording is a no-op: the flag stays
\* set, no getUserMedia call is issued, no stream is acquired, and the
\* recorder reference and every other variable keep their values.
C6_StartWhileRecording ==
    [][ (isRecording /\ last'.op = "startRecording")
        => /\ isRecording'
           /\ inflight' = inflight
           /\ streams' = streams
           /\ recorderRef' = recorderRef
           /\ last'.calls = <<>>
           /\ <<coreVars, teachVars, sessVars, audioVars>>'
                = <<coreVars, teachVars, sessVars, audioVars>> ]_vars

\* startRecording was called with a recorder capturing and was ignored
C6_Witness ==
    /\ isRecording
    /\ recorderRef \in ActiveRecorders
    /\ last.op = "startRecording"
    /\ last.out = "ignored"

\* the step is onstop of a recorder that kept no bytes
StopsEmpty ==
    \E k \in DOMAIN streams :
        /\ streams[k].rec = "flushed"
        /\ streams[k].bytes = 0
        /\ streams'[k].rec = "inactive"

\* C7: when a stopped recorder has accumulated zero bytes, onstop sets the
\* error "No audio captured", issues no transcription request, leaves the
\* input buffer alone and ends neither recording nor transcribing.
C7_EmptyCapture ==
    [][ StopsEmpty
        => /\ audioError' = NoAudioText
           /\ inflight' = inflight
           /\ last'.calls = <<>>
           /\ input' = input
           /\ ~isRecording'
           /\ ~isTranscribing' ]_vars

\* a recorder stopped with nothing captured and the error is showing, with
\* an earlier transcription still in the input buffer
C7_Witness ==
    /\ last.op = "onstop"
    /\ input = <<"zz">>
    /\ \E k \in DOMAIN streams : streams[k].rec = "inactive" /\ streams[k].bytes = 0
    /\ audioError = NoAudioText
    /\ ~isRecording /\ ~isTranscribing
    /\ CountOp(inflight, "stt") = 0

(* -------------------------------------------------------------- sessions *)
\* C8 as claimed: when the active session is deleted, the pointer is cleared
\* and the transcript is one system message before the refresh that the
\* delete triggers resolves; no state has that refresh settled with the
\* pointer still naming the deleted session.
C8_ResetBeforeRefresh ==
    \A i \in DOMAIN inflight :
        (/\ inflight[i].op = "resume"
         /\ inflight[i].cont = "delete"
         /\ inflight[i].sid = inflight[i].arg)
        => /\ sessionId # inflight[i].arg
           /\ Len(messages) = 1
           /\ messages[1].role = "system"

\* the step is the continuation of a selection whose fetch rejected or
\* came back with a non-success status
SelectFails == last'.op = "selectSettle" /\ last'.out \in {"network", "http"}

\* C9 as claimed: a session selection whose history fetch fails leaves the
\* transcript and the active-session pointer unchanged.
C9_SelectFailureUnchanged ==
    [][ SelectFails => (messages' = messages /\ sessionId' = sessionId) ]_vars

\* C9 as amended: a failed selection keeps the pointer and every entry of the
\* transcript, and appends the one system message "Failed to load session."
C9_SelectFailureAppends ==
    [][ SelectFails
        => /\ sessionId' = sessionId
           /\ messages' = Append(messages, Msg("system", LoadFailedText))
           /\ last'.calls = <<>> ]_vars

\* session s1 was loaded with its two messages, then a further selection failed
C9_Witness ==
    /\ last.op = "selectSettle"
    /\ last.out = "http"
    /\ sessionId = "s1"
    /\ Len(messages) = 3
    /\ messages[2] = Msg("student", "a1")
    /\ messages[3] = Msg("system", LoadFailedText)

(* ------------------------------------------------------------ teach mode *)
\* the step starts a chat send
SendStarts == last'.op = "processInput" /\ last'.out = "chat"

\* the step settles a chat send whose reply was a success marked silent
SilentSettles == last'.op = "chatSettle" /\ last'.out = "silent"

\* C10: with teach mode on, a chat send sets the teach status to learning
\* before its request goes out; when the reply is a success marked silent the
\* transcript gains no message and the status becomes learned with the reset
\* timer armed; when the timer fires the status becomes idle.  While teach
\* mode stays on, learning is left only when the send settles (to learned on
\* a silent reply, to idle otherwise) and learned is left only by the timer
\* (to idle) or by the next send (to learning).
C10_SilentTeachTurn ==
    [][ /\ (SendStarts /\ teachMode)
           => /\ teachStatus' = "learning"
              /\ ~teachTimer'
              /\ last'.calls = <<"chat">>
        /\ (SilentSettles /\ teachStatus = "learning" /\ teachMode)
           => /\ messages' = messages
              /\ teachStatus' = "learned"
              /\ teachTimer'
        /\ (teachStatus = "learning" /\ teachMode /\ teachMode'
              /\ teachStatus' # "learning")
           => /\ last'.op = "chatSettle"
              /\ teachStatus' = IF last'.out = "silent" THEN "learned" ELSE "idle"
        /\ (teachStatus = "learned" /\ teachMode' /\ teachStatus' # "learned")
           => \/ last'.op = "teachTimer" /\ teachStatus' = "idle" /\ ~teachTimer'
              \/ SendStarts /\ teachStatus' = "learning"
        /\ (teachStatus = "learned" /\ last'.op = "teachTimer")
           => teachStatus' = "idle" ]_vars

\* a silent teaching turn has run its course: the prompt is the last entry,
\* no assistant message followed it, and the timer has put the status back
C10_Witness ==
    /\ last.op = "teachTimer"
    /\ teachMode
    /\ teachStatus = "idle"
    /\ ~isSending
    /\ messages = <<Msg("system", GreetingText), Msg("teacher", "zz")>>

(* ------------------------------------------------------------- chat send *)
\* the step settles a chat send for which the server gave a response
\* (a success, silent or not, or a non-success status)
ChatAnswered == last'.op = "chatSettle" /\ last'.out \in {"ok", "silent", "http"}

\* C11 as claimed: every chat turn for which a response was obtained, success
\* or non-success status, triggers a session-list refresh.
C11_RefreshAfterResponse ==
    [][ ChatAnswered
        => /\ last'.calls = <<"sidebar_sessions">>
           /\ CountOp(inflight', "sidebar_sessions")
                = CountOp(inflight, "sidebar_sessions") + 1 ]_vars

\* C12: isSending is true only while the chat request is outstanding; once
\* the call has settled, whatever its outcome, the flag is false again.
C12_SendingEnds == isSending => CountOp(inflight, "chat") > 0

\* a send came back with an unparsable body and the flag is down
C12_Witness ==
    /\ last.op = "chatSettle"
    /\ last.out = "badjson"
    /\ ~isSending
    /\ CountOp(inflight, "chat") = 0

\* the step settles a chat send whose fetch rejected or came back non-success
ChatFails == last'.op = "chatSettle" /\ last'.out \in {"network", "http"}

ServerErrorTexts == {"Server error: " \o b : b \in {StatusText, "boom"}}

\* C13: a failed chat send appends exactly one system error message and
\* keeps every earlier entry; when it settles right after the send started,
\* the transcript is the prior one, the operator echo and the error, in order.
C13_FailureAppendsOne ==
    [][ ChatFails
        => /\ Len(messages') = Len(messages) + 1
           /\ SubSeq(messages', 1, Len(messages)) = messages
           /\ messages'[Len(messages')].role = "system"
           /\ messages'[Len(messages')].text \in
                (IF last'.out = "network" THEN {ConnectionErrorText}
                 ELSE ServerErrorTexts)
           /\ (last.op = "processInput" /\ last.out = "chat")
                => messages[Len(messages)] = Msg("teacher", Str(Trim(last.arg))) ]_vars

\* the welcome, the echoed prompt and the server's error text, in that order
C13_Witness ==
    /\ last.op = "chatSettle"
    /\ last.out = "http"
    /\ messages = <<Msg("system", WelcomeText), Msg("teacher", "zz"),
                    Msg("system", "Server error: boom")>>

\* the step settles a chat send with a success
ChatSucceeds == last'.op = "chatSettle" /\ last'.out \in {"ok", "silent"}

\* C14: a successful chat send sets the pointer to the session id the server
\* returned, or, when it returned none, to the pointer the send started with;
\* it appends one assistant message, or nothing when the reply is silent.
C14_SuccessAdopts ==
    [][ ChatSucceeds
        => /\ sessionId' = IF last'.arg[1] # Null THEN last'.arg[1] ELSE last'.arg[2]
           /\ (last'.arg[1] = Null /\ sessionId = last'.arg[2])
                => sessionId' = sessionId
           /\ IF last'.out = "silent" THEN messages' = messages
              ELSE /\ Len(messages') = Len(messages) + 1
                   /\ SubSeq(messages', 1, Len(messages)) = messages
                   /\ messages'[Len(messages')].role = "student" ]_vars

\* a send started on session s2 came back naming s1: the pointer moved to s1
\* and the reply is the last entry
C14_Witness ==
    /\ last.op = "chatSettle"
    /\ last.out = "ok"
    /\ last.arg = <<"s1", "s2">>
    /\ sessionId = "s1"
    /\ messages[Len(messages)] = Msg("student", "ok")

(* ------------------------------------------------------------ credentials *)
\* C15 as claimed: while a token is held, every remote call issued carries
\* the bearer credential.
C15_BearerOnEveryCall ==
    \A i \in DOMAIN inflight :
        (token # Null /\ inflight[i].op \notin LocalOps) => inflight[i].auth = token

(* ------------------------------------------------------ capture resources *)
\* no acquisition is pending and no stopped recorder still has to deliver
\* its stop event
CaptureSettled ==
    /\ CountOp(inflight, "getUserMedia") = 0
    /\ \A k \in DOMAIN streams : streams[k].rec \notin {"stopping", "flushed"}

\* C16 as claimed: capture resources are released on every exit path; once
\* the controller is not Recording and every start and stop has run its
\* course, no acquired stream has live tracks.
C16_CaptureReleased == (~isRecording /\ CaptureSettled) => LiveStreams = {}

\* the stored sessions of the accounts other than the one signed in, and
\* the texts their histories hold
ForeignSessions == UNION {OwnedBy(a) : a \in Accounts \ {user}}

ForeignTexts == {StoredHistory(id)[k].content : id \in ForeignSessions, k \in 1..2}

\* C17: once an account is signed in and the client has come to rest, neither
\* the active-session pointer nor any transcript entry comes from a session
\* of another account
C17_AccountIsolation ==
    (IsAuthenticated /\ inflight = <<>>) =>
        /\ sessionId \notin ForeignSessions
        /\ \A k \in DOMAIN messages : messages[k].text \notin ForeignTexts

(* ---------------------------------------------------------- transcription *)
\* the step settles a transcription request
SttSettles == last'.op = "sttSettle"

\* C21: whatever the transcription request comes back with (a text, no text,
\* a non-success status, a transport failure, an unparsable body), the step
\* that settles it leaves isTranscribing false; and the flag is never true
\* without a transcription request outstanding, so a capture that was empty
\* does not leave it set either.
C21_TranscribingEnds ==
    [][ /\ SttSettles => ~isTranscribing'
        /\ isTranscribing' => CountOp(inflight', "stt") > 0 ]_vars

\* a transcription came back with a non-success status and the controller is
\* neither transcribing nor recording
C21_Witness ==
    /\ last.op = "sttSettle"
    /\ last.out = "http"
    /\ ~isTranscribing
    /\ ~isRecording
    /\ audioError = "Transcription failed (500)"

\* C22: a successful transcription replaces the input buffer with the text
\* returned, or with the empty string when the body has no text, and clears
\* the audio error; a failed one sets the audio error and keeps the buffer.
C22_TranscriptionResult ==
    [][ SttSettles
        => IF last'.out = "ok"
           THEN /\ input' = (IF Head(last'.arg) = "text" THEN Tail(last'.arg) ELSE <<>>)
                /\ audioError' = Null
           ELSE /\ input' = input
                /\ audioError' # Null ]_vars

\* an earlier transcription had filled the buffer; the next one failed in
\* transport: the buffer still holds the earlier text and the error is shown
C22_Witness ==
    /\ last.op = "sttSettle"
    /\ last.out = "network"
    /\ input = <<"zz">>
    /\ audioError = FetchFailedText

(* --------------------------------------------------------------- playback *)
\* playLatestReply was called with none of isPlaying, isSending and
\* isTranscribing set, so the call got past its first guard
PlayAsked ==
    /\ last'.op = "playLatestReply"
    /\ ~(isPlaying \/ isSending \/ isTranscribing)

AssistantEntries == {k \in DOMAIN messages : messages[k].role = "student"}

\* the assistant entry that no other assistant entry follows
MostRecentAssistant ==
    CHOOSE k \in AssistantEntries : \A j \in AssistantEntries : j <= k

\* C23: playback asked for while the transcript holds no assistant message
\* shows 'No assistant reply available', issues no synthesis request and
\* leaves the controller idle; otherwise exactly one synthesis request goes
\* out, for the text of the most recent assistant message.
C23_PlayNeedsReply ==
    [][ PlayAsked
        => IF AssistantEntries = {}
           THEN /\ audioError' = "No assistant reply available"
                /\ last'.calls = <<>>
                /\ inflight' = inflight
                /\ ~isPlaying' /\ ~isTranscribing' /\ isRecording' = isRecording
           ELSE /\ last'.calls = <<"tts">>
                /\ Len(inflight') = Len(inflight) + 1
                /\ SubSeq(inflight', 1, Len(inflight)) = inflight
                /\ inflight'[Len(inflight')].op = "tts"
                /\ inflight'[Len(inflight')].arg = messages[MostRecentAssistant].text ]_vars

\* with two assistant replies in the transcript, playback was asked for and
\* the one synthesis request outstanding is for the later reply
C23_Witness ==
    /\ last.op = "playLatestReply"
    /\ Len(messages) = 3
    /\ messages[1] = Msg("student", "a0")
    /\ messages[3] = Msg("student", "a1")
    /\ CountOp(inflight, "tts") = 1
    /\ inflight[Len(inflight)].arg = "a1"

\* where a playback that has started stands: its synthesis request is
\* outstanding, or audio.play() is, or the element is playing
PlaybackUnderWay ==
    \/ CountOp(inflight, "tts") > 0
    \/ CountOp(inflight, "audio_play") > 0
    \/ player.stage = "playing"

\* the step ends a playback: the element ended, raised an error, play() was
\* rejected, or the synthesis request failed
PlaybackStops ==
    \/ last'.op \in {"onended", "onerror"}
    \/ last'.op = "playSettle" /\ last'.out = "rejected"
    \/ last'.op = "ttsSettle" /\ last'.out # "ok"

\* C24: isPlaying holds only while a playback is under way and an object URL
\* is held only by a playback under way; the step that ends a playback (end
\* of the audio, playback error, rejected play(), failed synthesis) clears
\* isPlaying and leaves no object URL; a failed synthesis request creates no
\* element and starts no play(); and every playback that started comes back
\* to not playing.
C24_PlaybackReleases ==
    /\ [](isPlaying => PlaybackUnderWay)
    /\ [](player.url => (isPlaying /\ player.stage \in {"starting", "playing"}))
    /\ [][ /\ PlaybackStops => (~isPlaying' /\ ~player'.url /\ player'.stage = "none")
           /\ (last'.op = "ttsSettle" /\ last'.out # "ok")
                => CountOp(inflight', "audio_play") = CountOp(inflight, "audio_play") ]_vars
    /\ (isPlaying ~> ~isPlaying)

\* the audio played to its end: not playing, no element, no object URL, and
\* no error shown
C24_Witness ==
    /\ last.op = "onended"
    /\ ~isPlaying
    /\ player = [stage |-> "none", url |-> FALSE]
    /\ audioError = Null
    /\ inflight = <<>>

(* ------------------------------------------------------- audio and sending *)
\* C25 as claimed: no audio operation overlaps a chat send; isSending is
\* never true together with isRecording, isTranscribing or isPlaying.
C25_NoAudioDuringSend == ~(isSending /\ (isRecording \/ isTranscribing \/ isPlaying))

(* ------------------------------------------------------ session selection *)
\* the step is the continuation of a selection that ended in its catch block:
\* rejected fetch, non-success status, unparsable or unusable body
SelectionFails == last'.op = "selectSettle" /\ last'.out # "ok"

SelectionStarts == last'.op = "handleSelectSession"

\* C26: a selection makes one history fetch when it starts and none after;
\* when it fails it appends the one system message 'Failed to load session.'
\* behind the entries the transcript holds, which stay as they are, in order.
C26_SelectFailureMessage ==
    [][ /\ SelectionStarts
           => /\ last'.calls = <<"session_messages">>
              /\ CountOp(inflight', "session_messages")
                   = CountOp(inflight, "session_messages") + 1
              /\ Len(inflight') = Len(inflight) + 1
        /\ SelectionFails
           => /\ Len(messages') = Len(messages) + 1
              /\ SubSeq(messages', 1, Len(messages)) = messages
              /\ messages'[Len(messages')] = Msg("system", "Failed to load session.")
              /\ last'.calls = <<>>
              /\ Len(inflight') = Len(inflight) - 1 ]_vars

\* a session had been loaded with its two messages; the next selection came
\* back with a body that does not parse
C26_Witness ==
    /\ last.op = "selectSettle"
    /\ last.out = "badjson"
    /\ messages = <<Msg("teacher", "q1"), Msg("student", "a1"),
                    Msg("system", "Failed to load session.")>>

\* the step is the continuation of a selection that succeeded
SelectionSucceeds == last'.op = "selectSettle" /\ last'.out = "ok"

\* the stored messages a successful selection fetched, as the step records
\* them: k-th role and k-th content
FetchedCount == (Len(last'.arg) - 1) \div 2

FetchedRole(k) == last'.arg[2 * k]

FetchedContent(k) == last'.arg[2 * k + 1]

\* C27: a successful selection issues no further call, sets the pointer to
\* the selected id and makes the transcript exactly the fetched history, in
\* server order, each entry assistant when its stored role is 'assistant' and
\* operator otherwise; nothing of the previous transcript remains.
C27_SelectSuccessReplaces ==
    [][ SelectionSucceeds
        => /\ sessionId' = last'.arg[1]
           /\ Len(messages') = FetchedCount
           /\ \A k \in 1..FetchedCount :
                 /\ messages'[k].text = FetchedContent(k)
                 /\ messages'[k].role =
                      (IF FetchedRole(k) = "assistant" THEN "student" ELSE "teacher")
           /\ last'.calls = <<>>
           /\ Len(inflight') = Len(inflight) - 1 ]_vars

\* a history holding a stored system note was loaded over a transcript that
\* held something else: the note is shown as an operator entry
C27_Witness ==
    /\ last.op = "selectSettle"
    /\ last.out = "ok"
    /\ last.arg = <<"s1", "system", "n1", "assistant", "a2">>
    /\ sessionId = "s1"
    /\ messages = <<Msg("teacher", "n1"), Msg("student", "a2")>>

(* ----------------------------------------------------------------- rename *)
\* the step ran handleRenameSession on the title the field held
RenameAsked == last'.op = "handleRenameSession"

\* the title without the blanks around it, as it travels in the query string
SentTitle(title) == Str(EncodeURIComponent(Trim(title)))

\* C28: a rename whose title is empty or blank makes no remote call and
\* leaves editing mode and the pending title as they are; a rename with a
\* title makes one rename call carrying the trimmed title for the session
\* being renamed; when that call succeeds a session-list refresh follows it,
\* and editing mode and the pending title are cleared once the refresh has
\* returned; when it fails no refresh is made and both stay set.  Nothing but
\* that continuation and the cancel button leaves editing mode.
C28_RenameValidated ==
    [][ /\ RenameAsked
           => /\ editingSession' = editingSession /\ newTitle' = newTitle
              /\ IF \A k \in DOMAIN newTitle : newTitle[k] = SP
                 THEN last'.calls = <<>> /\ inflight' = inflight
                 ELSE /\ last'.calls = <<"rename_session">>
                      /\ Len(inflight') = Len(inflight) + 1
                      /\ SubSeq(inflight', 1, Len(inflight)) = inflight
                      /\ inflight'[Len(inflight')].op = "rename_session"
                      /\ inflight'[Len(inflight')].sid = editingSession
                      /\ inflight'[Len(inflight')].arg = SentTitle(newTitle)
        /\ (last'.op = "renameSettle" /\ last'.out = "ok")
           => /\ last'.calls = <<"sidebar_sessions">>
              /\ CountOp(inflight', "sidebar_sessions")
                   = CountOp(inflight, "sidebar_sessions") + 1
              /\ editingSession' = editingSession /\ newTitle' = newTitle
        /\ (last'.op = "renameSettle" /\ last'.out # "ok")
           => /\ last'.calls = <<>>
              /\ CountOp(inflight', "sidebar_sessions") = CountOp(inflight, "sidebar_sessions")
              /\ editingSession' = editingSession /\ newTitle' = newTitle
        /\ last'.op = "resumeRename"
           => editingSession' = Null /\ newTitle' = <<>>
        /\ (editingSession # Null /\ editingSession' = Null)
           => last'.op \in {"resumeRename", "handleRenameCancel"} ]_vars

\* the title " zz " was submitted for session s1: one rename call is
\* outstanding with the title "zz", and the form is still in editing mode
C28_Witness ==
    /\ last.op = "handleRenameSession"
    /\ editingSession = "s1"
    /\ newTitle = <<SP, "zz", SP>>
    /\ Len(inflight) = 1
    /\ inflight[1].op = "rename_session"
    /\ inflight[1].arg = "zz"
    /\ inflight[1].sid = "s1"

(* ------------------------------------------------------------- teach mode *)
\* the step settles the mutation toggleTeachMode issued
ToggleSettles == last'.op = "toggleSettle"

\* C29: toggleTeachMode issues exactly one remote mutation.  When it succeeds
\* the local teach mode becomes the boolean the server returned, whether or
\* not that is the value asked for, and the result is true (the caller
\* announces the change); on a transport failure or a non-success response
\* the local value is unchanged and the result is false (the caller reports
\* that the endpoint could not be reached).
C29_ToggleAdoptsServerValue ==
    [][ /\ last'.op = "handleToggleTeachMode"
           => /\ last'.calls = <<"teach_mode_set">>
              /\ CountOp(inflight', "teach_mode_set") = CountOp(inflight, "teach_mode_set") + 1
              /\ Len(inflight') = Len(inflight) + 1
              /\ teachMode' = teachMode
        /\ ToggleSettles
           => /\ last'.calls = <<>>
              /\ Len(inflight') = Len(inflight) - 1
              /\ IF last'.out = "ok"
                 THEN /\ teachMode' = (last'.arg[3] = "true")
                      /\ last'.arg[1] = "true"
                      /\ messages'[Len(messages')].text \in {"Teach Mode ON.", "Teach Mode OFF."}
                 ELSE /\ teachMode' = teachMode
                      /\ last'.arg[1] = "false"
                      /\ messages'[Len(messages')].text
                           = "Could not reach the Teach Mode endpoint." ]_vars

\* teach mode was off and ON was asked for; the server answered with off: the
\* call reports success and the local value is the server's
C29_Witness ==
    /\ last.op = "toggleSettle"
    /\ last.out = "ok"
    /\ last.arg = <<"true", "true", "false">>
    /\ ~teachMode
    /\ messages[Len(messages)] = Msg("system", "Teach Mode ON.")

\* the step settles a refreshTeachMode whose request was rejected or came
\* back with a non-success status
RefreshFails == last'.op = "teachRefreshSettle" /\ last'.out \in {"network", "http"}

\* C30: a refreshTeachMode that fails keeps the local teach-mode value and
\* appends nothing to the transcript.
C30_RefreshFailureSilent ==
    [][ RefreshFails => (teachMode' = teachMode /\ messages' = messages) ]_vars

\* teach mode had been found on at an earlier sign-in; the refresh of the
\* next sign-in came back with a non-success status and teach mode is still on
C30_Witness ==
    /\ last.op = "teachRefreshSettle"
    /\ last.out = "http"
    /\ teachMode

(* ---------------------------------------------------- teach status life *)
\* a chat turn that was sent with teach mode on has not settled yet
TeachTurnOutstanding ==
    \E i \in DOMAIN inflight : inflight[i].op = "chat" /\ inflight[i].tm

\* the step settles a chat turn
ChatTurnSettles == CountOp(inflight', "chat") < CountOp(inflight, "chat")

\* C31: the teach status is learning only while a chat turn that was sent
\* with teach mode on is outstanding; when a turn settles the status is
\* learned only if that turn was a teach-mode turn whose reply was suppressed,
\* and in every other case it is idle at once.
C31_TeachStatusLife ==
    /\ [](teachStatus = "learning" => TeachTurnOutstanding)
    /\ [][ ChatTurnSettles
            => /\ teachStatus' \in {"learned", "idle"}
               /\ teachStatus' = "learned"
                    => (last'.out = "silent" /\ TeachTurnOutstanding)
               /\ (last'.out # "silent" \/ ~TeachTurnOutstanding)
                    => (teachStatus' = "idle" /\ ~teachTimer') ]_vars

\* a teach-mode turn came back with an ordinary reply and the status is idle
\* again with no timer pending
C31_Witness ==
    /\ last.op = "chatSettle"
    /\ last.out = "ok"
    /\ teachMode
    /\ teachStatus = "idle"
    /\ ~teachTimer
    /\ messages[Len(messages)].role = "student"

(* --------------------------------------------------------- teach mode off *)
\* C32: whenever teach mode turns off, by a toggle or by the refresh of
\* sign-in, whatever the teach status is at that moment, the status is idle
\* and no reset timer is pending afterwards; in no state is a timer pending
\* or the status other than idle while teach mode is off.
C32_TeachOffForcesIdle ==
    /\ [](~teachMode => (teachStatus = "idle" /\ ~teachTimer))
    /\ [][ (teachMode /\ ~teachMode')
            => /\ last'.op \in {"toggleSettle", "teachRefreshSettle"}
               /\ teachStatus' = "idle"
               /\ ~teachTimer' ]_vars

\* the refresh of a sign-in found teach mode off on the server while a
\* teach-mode turn was outstanding and the status was learning
C32_Witness ==
    /\ last.op = "teachRefreshSettle"
    /\ ~teachMode
    /\ teachStatus = "idle"
    /\ ~teachTimer
    /\ TeachTurnOutstanding

(* ------------------------------------------------------- submit routing *)
\* the step is a submit of what the buffer holds
Submits == last'.op = "processInput" /\ last'.arg = input

\* C33: submitting empty or whitespace-only input changes no state (no
\* message, buffer kept, no call); a non-empty trimmed input that starts with
\* "/" goes to the command interpreter and never to chat-send; any other
\* non-empty input goes to chat-send and never to the command interpreter; in
\* both non-empty cases the buffer is cleared and the palette closed.
C33_SubmitRouting ==
    [][ last'.op = "processInput"
        => LET trimmed == Trim(input)
           IN  /\ Submits
               /\ trimmed = <<>>
                    => /\ last'.out = "none"
                       /\ last'.calls = <<>>
                       /\ UNCHANGED <<coreVars, teachVars, sessVars, audioVars,
                                      authVars, renameVars, uploadVars, inflight>>
               /\ (trimmed # <<>> /\ Head(trimmed) = Slash)
                    => /\ last'.out = "command"
                       /\ \A k \in DOMAIN last'.calls : last'.calls[k] # "chat"
                       /\ CountOp(inflight', "chat") = CountOp(inflight, "chat")
                       /\ isSending' = isSending
                       /\ teachStatus' = teachStatus
                       /\ input' = <<>>
                       /\ ~showSuggestions'
                       /\ commandQuery' = <<>>
               /\ (trimmed # <<>> /\ Head(trimmed) # Slash)
                    => /\ last'.out = "chat"
                       /\ last'.calls = <<"chat">>
                       /\ inflight' = Append(inflight,
                                             Req("chat", Str(trimmed), sessionId, teachMode, ""))
                       /\ messages' = Append(messages, Msg("teacher", Str(trimmed)))
                       /\ isSending'
                       /\ input' = <<>>
                       /\ ~showSuggestions'
                       /\ commandQuery' = <<>> ]_vars

\* a buffer whose slash shows only after trimming was submitted with the
\* palette closed: it went to the command interpreter and the buffer is empty
C33_Witness ==
    /\ last.op = "processInput"
    /\ last.out = "command"
    /\ last.arg = <<SP, Slash, "help">>
    /\ input = <<>>
    /\ ~showSuggestions
    /\ ~isSending

(* ---------------------------------------------------------------- new chat *)
\* C34: new-chat replaces the transcript with exactly one greeting (system)
\* message, sets the active-session pointer to null, empties the input buffer
\* and closes the command palette, and makes no remote call; the session
\* list, teach mode and the audio state are as they were.
C34_NewChatFrame ==
    [][ last'.op = "handleNewChat"
        => /\ messages' = <<Msg("system", "Hello! I am ready to learn.")>>
           /\ sessionId' = Null
           /\ input' = <<>>
           /\ ~showSuggestions'
           /\ commandQuery' = <<>>
           /\ last'.calls = <<>>
           /\ inflight' = inflight
           /\ UNCHANGED <<sessVars, teachVars, audioVars>> ]_vars

\* new chat was pressed with teach mode on, a reply playing, a stored session
\* listed and a send outstanding: the transcript is the greeting alone and
\* the pointer is null, the rest is in place
C34_Witness ==
    /\ last.op = "handleNewChat"
    /\ messages = <<Msg("system", "Hello! I am ready to learn.")>>
    /\ sessionId = Null
    /\ input = <<>>
    /\ teachMode
    /\ isPlaying
    /\ sessions # <<>>
    /\ isSending

(* ------------------------------------------------------- one send at a time *)
\* C35: at most one chat send is outstanding at any time: while the client is
\* Sending no second chat send is started through the submit path, over every
\* interleaving of submit gestures and call completions.
C35_OneSendAtATime ==
    /\ [](CountOp(inflight, "chat") <= 1)
    /\ [][ isSending
            => /\ last'.op # "processInput"
               /\ CountOp(inflight', "chat") <= CountOp(inflight, "chat") ]_vars

\* a second prompt went out after the first one had settled, while the
\* refresh the first one started was still outstanding
C35_Witness ==
    /\ last.op = "processInput"
    /\ last.out = "chat"
    /\ isSending
    /\ CountOp(inflight, "chat") = 1
    /\ CountOp(inflight, "sidebar_sessions") = 1
    /\ Len(messages) = 4

(* ---------------------------------------------- selecting while sending *)
\* session s2 was opened while a send that started on another session, or on
\* none, was outstanding
SelectedDuringSend ==
    /\ sessionId = "s2"
    /\ \E i \in DOMAIN inflight : inflight[i].op = "chat" /\ inflight[i].sid # "s2"

\* the prompts of the sends that are outstanding
PendingPrompts == { inflight[i].arg : i \in { j \in DOMAIN inflight : inflight[j].op = "chat" } }

\* C36 as claimed: when a session is selected while a chat send on another or
\* on no session is in flight, the completion of that send neither appends
\* its reply to the newly loaded transcript nor moves the active-session
\* pointer away from the selected session; and the selection never discards
\* the echoed operator message of the in-flight turn.
C36_SelectionIsolatesSend ==
    [][ /\ (SelectedDuringSend /\ ChatTurnSettles)
           => /\ sessionId' = sessionId
              /\ ~(/\ Len(messages') > Len(messages)
                    /\ messages'[Len(messages')].role = "student")
        /\ (last'.op = "selectSettle" /\ last'.out = "ok")
           => \A p \in PendingPrompts :
                \E k \in DOMAIN messages' : messages'[k] = Msg("teacher", p) ]_vars

(* ------------------------------------------------ deleting while switching *)
\* the step is the rest of handleDeleteSession, run once the delete and the
\* refresh it awaits have returned; last'.out is the id that was deleted
DeleteCompletes == last'.op = "resumeDelete"

\* C37 as claimed: handleDeleteSession clears the active-session pointer and
\* resets the transcript only if the deleted session is the active session at
\* the moment the delete completes; if another session was selected, or a new
\* chat started, while the delete was in flight, the pointer and the
\* transcript are left unchanged.
C37_DeleteResetsOnlyActive ==
    [][ (DeleteCompletes /\ sessionId # last'.out)
        => /\ sessionId' = sessionId
           /\ messages' = messages ]_vars

(* -------------------------------------------------- overlapping refreshes *)
\* the position of the list fetch that was issued first among those
\* outstanding; a fetch started by a chat turn is appended to the outstanding
\* calls when it is issued, so their order is the order of issue
EarliestListFetch(q) ==
    CHOOSE i \in DOMAIN q :
        q[i].op = "sidebar_sessions" /\ \A j \in 1..(i - 1) : q[j].op # "sidebar_sessions"

\* the previous step installed the answer to a list fetch that had overtaken
\* an older one, and this step settles the oldest list fetch outstanding
StaleAnswerArrives ==
    /\ last.op = "fetchSessionsSettle"
    /\ last.out = "ok"
    /\ last.arg[2] = "overtook"
    /\ last'.op = "fetchSessionsSettle"
    /\ CountOp(inflight, "sidebar_sessions") > 0
    /\ inflight' = RemoveAt(inflight, EarliestListFetch(inflight))

\* C38 as claimed: when several list fetches are in flight at once, the cache
\* ends up equal to the response to the most recently issued fetch: a response
\* to an earlier-issued fetch that arrives later never overwrites it; and a
\* failed fetch leaves the cache unchanged.
C38_LatestIssuedWins ==
    [][ /\ StaleAnswerArrives => sessions' = sessions
        /\ (last'.op = "fetchSessionsSettle" /\ last'.out # "ok")
             => sessions' = sessions ]_vars

\* C39 as claimed: the refreshing flag is true in every state in which at
\* least one list fetch is in flight and false once none is; the completion
\* of one of two overlapping fetches does not clear it while the other is
\* outstanding.
C39_RefreshingWhileFetching ==
    refreshing <=> CountOp(inflight, "sidebar_sessions") > 0

(* ------------------------------------------------------------ login result *)
\* the step is the end of login(email, password) after its profile fetch,
\* and login reports success
LoginReportsSuccess == last'.op = "profileSettle" /\ last'.out = "success"

\* C40 as claimed: login returns success only if the client ends up
\* authenticated: whenever it reports success the token and the user profile
\* are both set afterwards; a login whose profile fetch fails, which clears
\* the token, does not report success.
C40_LoginSuccessMeansAuthenticated ==
    [][ LoginReportsSuccess => (token' # Null /\ user' # Null) ]_vars

====
